---- MODULE Spec2Model ----
(***************************************************************************)
(* Model of the timeline editor component VideoEditor (src/src/main.tsx):  *)
(* the React state of the component, its event handlers, its effects and   *)
(* the commands they issue to the <video>/<audio> media elements.          *)
(*                                                                         *)
(* Numbers.  Every number of the component is a JavaScript number, an     *)
(* IEEE-754 double.  A double is modelled exactly, as a record            *)
(*     [neg |-> BOOLEAN, mag |-> <<hi, mid, lo>>]                          *)
(* that stands for (-1)^neg * (hi*2^48 + mid*2^24 + lo) * 2^-60.  All the  *)
(* numbers the model feeds in (whole seconds, 0.1, pixels/80) are          *)
(* multiples of 2^-60 below 4096, and sums and differences of such numbers *)
(* are again multiples of 2^-60, so the grid holds every value exactly;    *)
(* an arithmetic result is rounded to 53 significant bits, ties to even,   *)
(* as the hardware does.                                                   *)
(***************************************************************************)
EXTENDS Integers, Sequences, FiniteSets, TLC

----------------------------------------------------------------------------
(* IEEE-754 double arithmetic (the JavaScript number type)                 *)

Limb == 2^24

\* null (an absent object), null (an absent id), undefined and Infinity
Null == [null |-> TRUE]
NullId == 0
Undefined == [undefined |-> TRUE]
Infinity == [infinity |-> TRUE]

MagZero == <<0, 0, 0>>

\* carry-normalise three limb sums (the top limb keeps any excess)
MagNorm(h, m, l) ==
  LET m1 == m + (l \div Limb)
  IN  <<h + (m1 \div Limb), m1 % Limb, l % Limb>>

MagAdd(a, b) == MagNorm(a[1] + b[1], a[2] + b[2], a[3] + b[3])

\* a - b for a >= b
MagSub(a, b) ==
  LET l  == a[3] - b[3]
      bl == IF l < 0 THEN 1 ELSE 0
      m  == a[2] - b[2] - bl
      bm == IF m < 0 THEN 1 ELSE 0
  IN  <<a[1] - b[1] - bm, m + bm * Limb, l + bl * Limb>>

MagCmp(a, b) ==
  IF a[1] # b[1] THEN (IF a[1] < b[1] THEN -1 ELSE 1)
  ELSE IF a[2] # b[2] THEN (IF a[2] < b[2] THEN -1 ELSE 1)
  ELSE IF a[3] # b[3] THEN (IF a[3] < b[3] THEN -1 ELSE 1)
  ELSE 0

RECURSIVE BitLen(_)
BitLen(n) ==
  IF n = 0 THEN 0
  ELSE CHOOSE len \in {1 + BitLen(half) : half \in {n \div 2}} : TRUE

MagBitLen(a) ==
  IF a[1] > 0 THEN 48 + BitLen(a[1])
  ELSE IF a[2] > 0 THEN 24 + BitLen(a[2])
  ELSE BitLen(a[3])

\* round a magnitude to 53 significant bits, ties to even; sticky says
\* that the exact value lies strictly above the magnitude given
MagRound(a, sticky) ==
  CHOOSE rounded \in
    {IF r <= 0 THEN a
     ELSE CHOOSE m \in
            {LET q    == a[3] \div p
                 rem  == a[3] % p
                 half == p \div 2
                 up   == \/ rem > half
                         \/ rem = half /\ (sticky \/ q % 2 = 1)
             IN  MagNorm(a[1], a[2], (q + (IF up THEN 1 ELSE 0)) * p) :
             p \in {2^r}} : TRUE :
     r \in {MagBitLen(a) - 53}} : TRUE

\* floor(a / d) and whether a remainder is left, for a small divisor d
MagDivSmall(a, d) ==
  LET q1 == a[1] \div d
      r1 == a[1] % d
      q2 == (r1 * Limb + a[2]) \div d
      r2 == (r1 * Limb + a[2]) % d
      q3 == (r2 * Limb + a[3]) \div d
      r3 == (r2 * Limb + a[3]) % d
  IN  [q |-> <<q1, q2, q3>>, inexact |-> r3 # 0]

Dbl(neg, mag) == [neg |-> neg /\ mag # MagZero, mag |-> mag]

Zero == Dbl(FALSE, MagZero)

\* the double of a whole number n
Num(n) == Dbl(n < 0, <<(IF n < 0 THEN -n ELSE n) * 2^12, 0, 0>>)

\* the double nearest to n / d, as the / operator yields on whole n and d
NumDiv(n, d) ==
  LET dv == MagDivSmall(<<(IF n < 0 THEN -n ELSE n) * 2^12, 0, 0>>, d)
  IN  Dbl(n < 0, MagRound(dv.q, dv.inexact))

Neg(x) == Dbl(~x.neg, x.mag)

\* the exact (unrounded) sum of two doubles
ExactAdd(x, y) ==
  IF x.neg = y.neg THEN Dbl(x.neg, MagAdd(x.mag, y.mag))
  ELSE IF MagCmp(x.mag, y.mag) >= 0 THEN Dbl(x.neg, MagSub(x.mag, y.mag))
  ELSE Dbl(y.neg, MagSub(y.mag, x.mag))

Round(x) == Dbl(x.neg, MagRound(x.mag, FALSE))

\* x + y and x - y of the language (Infinity only ever stands on the left);
\* the operands and the exact sum are bound so that each is evaluated once
Add(x, y) ==
  CHOOSE r \in {Round(e) : e \in {ExactAdd(a, b) : a \in {x}, b \in {y}}} :
    TRUE
Sub(x, y) == IF x = Infinity THEN Infinity ELSE Add(x, Neg(y))

Lt(x, y) ==
  IF x.neg # y.neg THEN x.neg
  ELSE IF x.neg THEN MagCmp(x.mag, y.mag) > 0
  ELSE MagCmp(x.mag, y.mag) < 0

Le(x, y) == x = y \/ Lt(x, y)

\* Math.max and Math.min on two numbers, each operand evaluated once
MathMax(x, y) ==
  CHOOSE r \in {IF Lt(a, b) THEN b ELSE a : a \in {x}, b \in {y}} : TRUE
MathMin(x, y) ==
  CHOOSE r \in {IF b = Infinity THEN a ELSE IF Lt(b, a) THEN b ELSE a :
                  a \in {x}, b \in {y}} : TRUE


----------------------------------------------------------------------------
(* Bounds of the model and the inputs the events draw from                 *)

MaxAssets == 1
MaxSegments == 2
MaxGestures == 1
MaxEdits == 1
MaxTrackSegments == 3
MaxSortEdits == 2
MaxCutAssets == 2
MaxCutSegments == 7
MaxRangeSegments == 4
MaxPending == 2
MaxSeekAssets == 2
MaxRepeatEdits == 2
MaxPlayPromises == 3
MaxRefPlays == 2

PIXELS_PER_SECOND == 80

\* pointer X at a mouse-down, and at the moves and releases that follow
DownXs == {400}
MoveXs == {-800, 482}

\* pointer X at a move when calls miss their reference in between
RefMoveXs == {482}

\* durations the metadata-loaded notification reports
AssetDurations == {NumDiv(73, 10)}

\* values typed into the numeric fields of the edit panel
EditValues == {Num(-1)}

\* values typed into the timelineStart field when segments are laid out
SortStarts == {Num(-1), Num(5)}

\* positions the media element reports in a timeupdate notification
CurrentTimes == {Zero, Num(10)}

Tenth == NumDiv(1, 10)

----------------------------------------------------------------------------
(* State of the component                                                  *)

VARIABLES
  videoAssets, audioAssets,          \* useState: the two asset registries
  videoSegments, audioSegments,      \* useState: the two tracks
  isPlaying, isAudioPlaying,         \* useState: the two scheduler states
  selectedVideoSegmentId, selectedAudioSegmentId,
                                     \* (all eight as of the last render: the
                                     \* values the handlers close over)
  pending,                           \* the setState calls React has yet to
                                     \* render, event by event, oldest first,
                                     \* with the rendered ones made after them
  baseState,                         \* the state the queued calls apply to
                                     \* (Null while none is queued)
  stale,                             \* the render before the last, while the
                                     \* effects of the last have yet to run
                                     \* (Null once they ran)
  videoTime, audioTime,              \* currentTime of the two preview
                                     \* elements
  mounted,                           \* FALSE once a render threw and React
                                     \* unmounted the root
  dragState, resizeState,            \* useRef: the gesture in progress
  playPromises,                      \* promises of media.play() not yet
                                     \* settled, by track
  gestures, edits,                   \* counters that bound the exploration
  videoCmds, audioCmds,              \* calls made on the media elements by
                                     \* the last step: by the handler, then by
                                     \* the effects of its render
  last                               \* the event of the last step

vars == <<videoAssets, audioAssets, videoSegments, audioSegments,
          isPlaying, isAudioPlaying,
          selectedVideoSegmentId, selectedAudioSegmentId,
          pending, baseState, stale, videoTime, audioTime, mounted,
          dragState, resizeState, playPromises, gestures, edits,
          videoCmds, audioCmds, last>>

videoTrack == <<videoSegments, selectedVideoSegmentId, isPlaying>>
audioTrack == <<audioSegments, selectedAudioSegmentId, isAudioPlaying>>
registries == <<videoAssets, audioAssets>>
refs == <<dragState, resizeState>>
counters == <<gestures, edits>>
scheduled == <<pending, baseState, stale>>
positions == <<videoTime, audioTime>>

\* an event.  For a render in a task of its own, of names the newest event
\* whose updates it applies and n tells how many events were handled since
\* the oldest of them; for the run of effects in a task of their own, of
\* names the event they follow; fx tells whether React ran the effects of
\* an earlier render in the step, or in the steps it took since the last
\* event
Event(op, id, x, fld, val) ==
  [op |-> op, id |-> id, x |-> x, fld |-> fld, val |-> val, of |-> "",
   n |-> 0, fx |-> FALSE]

Ids(seq) == {seq[i].id : i \in 1..Len(seq)}

\* array.find(e => e.id === id) || null
Find(seq, id) ==
  IF \E i \in 1..Len(seq) : seq[i].id = id
  THEN seq[CHOOSE i \in 1..Len(seq) :
             seq[i].id = id /\ \A j \in 1..(i - 1) : seq[j].id # id]
  ELSE Null

\* the derived values computed at every render
selectedVideoSegment == Find(videoSegments, selectedVideoSegmentId)
selectedAudioSegment == Find(audioSegments, selectedAudioSegmentId)

selectedVideoAsset ==
  IF selectedVideoSegment = Null THEN Null
  ELSE Find(videoAssets, selectedVideoSegment.assetId)

selectedAudioAsset ==
  IF selectedAudioSegment = Null THEN Null
  ELSE Find(audioAssets, selectedAudioSegment.assetId)

\* videoRef.current / audioRef.current: the preview element is rendered,
\* and the ref attached, only while a selected asset exists; the element is
\* named by the asset whose url is its src
videoRef ==
  IF selectedVideoAsset = Null THEN NullId ELSE selectedVideoAsset.id
audioRef ==
  IF selectedAudioAsset = Null THEN NullId ELSE selectedAudioAsset.id

\* the setState calls an event made that React has not rendered yet
\* (sync: the event was a discrete one, whose updates React has rendered)
Batch(ev, updates, sync) == [ev |-> ev, updates |-> updates, sync |-> sync]

\* the queue keeps the event of its newest batch that React has yet to
\* render: the batches before it, and the rendered ones, carry no event
NoEvent == Event("", NullId, 0, "", Zero)

Settled(batches) ==
  [i \in 1..Len(batches) |-> [batches[i] EXCEPT !.ev = NoEvent]]

\* the queued updates in one sequence
RECURSIVE Flat(_)
Flat(batches) ==
  IF batches = << >> THEN << >>
  ELSE Head(batches).updates \o Flat(Tail(batches))

Queue == Flat(pending)

\* ids the queued updates hold
PendingIds ==
  UNION {{Queue[i].id}
           \cup Ids(Queue[i].items)
           \cup (IF Queue[i].ref = Null THEN {} ELSE {Queue[i].ref.id}) :
         i \in 1..Len(Queue)}

\* ids held anywhere in the component
UsedIds ==
  Ids(videoAssets) \cup Ids(audioAssets)
    \cup Ids(videoSegments) \cup Ids(audioSegments)
    \cup {selectedVideoSegmentId, selectedAudioSegmentId}
    \cup (IF dragState = Null THEN {} ELSE {dragState.id})
    \cup (IF resizeState = Null THEN {} ELSE {resizeState.id})
    \cup PendingIds

\* a variant of createId that hands out the call's number, used or not
createIdReuse(k) == k

\* createId, called for the k-th time by an event: an id no object holds
\* (the random token is taken to collide with none; of the ids that fit,
\* the model names the least, which is the same up to renaming)
RECURSIVE createId(_)
createId(k) ==
  LET taken == UsedIds \cup {createId(j) : j \in 1..(k - 1)}
  IN  CHOOSE id \in 1..(Cardinality(taken) + 1) :
        id \notin taken /\ \A j \in 1..(id - 1) : j \in taken

Segment(id, assetId, sourceStart, duration, timelineStart) ==
  [id |-> id, assetId |-> assetId, sourceStart |-> sourceStart,
   duration |-> duration, timelineStart |-> timelineStart]

Asset(id, duration) == [id |-> id, duration |-> duration]

\* a call on a media element: what, on which source, with which position
Cmd(c, src, t) == [cmd |-> c, src |-> src, t |-> t]

\* [...segs].sort((a, b) => a.timelineStart - b.timelineStart): stable
RECURSIVE InsertSorted(_, _)
InsertSorted(sorted, s) ==
  IF sorted = << >> THEN <<s>>
  ELSE IF Lt(s.timelineStart, sorted[Len(sorted)].timelineStart)
       THEN Append(InsertSorted(SubSeq(sorted, 1, Len(sorted) - 1), s),
                   sorted[Len(sorted)])
       ELSE Append(sorted, s)

\* a variant that hands the collection back as it is
SortSkipped(segs) == segs

\* (the sorted prefix is bound to rest so that it is evaluated once)
RECURSIVE SortByTimelineStart(_)
SortByTimelineStart(segs) ==
  IF segs = << >> THEN << >>
  ELSE CHOOSE out \in
         {InsertSorted(rest, segs[Len(segs)]) :
            rest \in {SortByTimelineStart(SubSeq(segs, 1, Len(segs) - 1))}} :
         TRUE

\* sorted.findIndex(s => s.id === id); sorted[idx + 1] ?? null (the sorted
\* copy is bound once)
NextAfter(segs, id) ==
  CHOOSE next \in
    {LET idx == IF \E i \in 1..Len(sorted) : sorted[i].id = id
                THEN CHOOSE i \in 1..Len(sorted) : sorted[i].id = id
                ELSE 0
     IN  IF idx + 1 <= Len(sorted) THEN sorted[idx + 1] ELSE Null :
       sorted \in {SortByTimelineStart(segs)}} : TRUE

\* a variant of the lookup that answers the selected segment itself
getNextVideoSegmentStays(st) ==
  Find(st.videoSegments, st.selectedVideoSegmentId)

\* getNextVideoSegment of the render st
getNextVideoSegment(st) ==
  CHOOSE next \in {IF seg = Null THEN Null
                   ELSE NextAfter(st.videoSegments, seg.id) :
                   seg \in {Find(st.videoSegments,
                                 st.selectedVideoSegmentId)}} : TRUE

----------------------------------------------------------------------------
(* State updates: what a setState call queues, and what it does when React *)
(* renders                                                                 *)

\* a queued setState call: the state variable it is for, and its argument.
\* A plain value is kind "id" or "flag"; the other kinds are the updater
\* functions prev => ... of the source, with the values they close over
SetState(hook, kind, id, fld, val, flag, items, ref) ==
  [hook |-> hook, kind |-> kind, id |-> id, fld |-> fld, val |-> val,
   flag |-> flag, items |-> items, ref |-> ref]

\* setX(prev => [...prev, ...items])
Appending(hook, items) ==
  SetState(hook, "append", NullId, "", Zero, FALSE, items, Null)
\* setX(prev => prev.map(a => (a.id === assetId ? { ...a, duration } : a)))
SettingDuration(hook, assetId, duration) ==
  SetState(hook, "duration", assetId, "", duration, FALSE, << >>, Null)
\* setX(prev => prev.map(s => (s.id === id ? { ...s, ...patch } : s)))
Patching(hook, id, fld, val) ==
  SetState(hook, "patch", id, fld, val, FALSE, << >>, Null)
\* setX(prev => prev.filter(s => s.id !== id))
Filtering(hook, id) ==
  SetState(hook, "filter", id, "", Zero, FALSE, << >>, Null)
\* the updater of a drag move, closing over updated and reading
\* dragState.current when it runs
Dragging(hook, updated) ==
  SetState(hook, "drag", NullId, "", updated, FALSE, << >>, Null)
\* the updater of a resize move, closing over deltaSecs and reading
\* resizeState.current when it runs
Resizing(hook, deltaSecs) ==
  SetState(hook, "resize", NullId, "", deltaSecs, FALSE, << >>, Null)
\* setSelectedVideoSegmentId(id), setSelectedAudioSegmentId(id)
SetId(hook, id) ==
  SetState(hook, "id", id, "", Zero, FALSE, << >>, Null)
\* setIsPlaying(flag), setIsAudioPlaying(flag)
SetFlag(hook, flag) ==
  SetState(hook, "flag", NullId, "", Zero, flag, << >>, Null)

\* the state of the last render, by state variable; touched holds the ids
\* of the objects the updates applied so far have rebuilt, error whether an
\* updater threw
Committed ==
  [videoAssets |-> videoAssets, audioAssets |-> audioAssets,
   videoSegments |-> videoSegments, audioSegments |-> audioSegments,
   selectedVideoSegmentId |-> selectedVideoSegmentId,
   selectedAudioSegmentId |-> selectedAudioSegmentId,
   isPlaying |-> isPlaying, isAudioPlaying |-> isAudioPlaying,
   touched |-> [videoAssets |-> {}, audioAssets |-> {},
                videoSegments |-> {}, audioSegments |-> {}],
   error |-> FALSE]

\* the eight state variables of a render
Values(st) ==
  [videoAssets |-> st.videoAssets, audioAssets |-> st.audioAssets,
   videoSegments |-> st.videoSegments, audioSegments |-> st.audioSegments,
   selectedVideoSegmentId |-> st.selectedVideoSegmentId,
   selectedAudioSegmentId |-> st.selectedAudioSegmentId,
   isPlaying |-> st.isPlaying, isAudioPlaying |-> st.isAudioPlaying]

\* the state the queue applies to: the one of the render before the oldest
\* update that React has yet to render
Base ==
  IF pending = << >> THEN Committed
  ELSE [Committed EXCEPT
          !.videoAssets = baseState.videoAssets,
          !.audioAssets = baseState.audioAssets,
          !.videoSegments = baseState.videoSegments,
          !.audioSegments = baseState.audioSegments,
          !.selectedVideoSegmentId = baseState.selectedVideoSegmentId,
          !.selectedAudioSegmentId = baseState.selectedAudioSegmentId,
          !.isPlaying = baseState.isPlaying,
          !.isAudioPlaying = baseState.isAudioPlaying]

\* prev.map(a => a.id === assetId ? {...a, duration} : a)
SetDuration(assets, assetId, duration) ==
  [i \in 1..Len(assets) |->
     IF assets[i].id = assetId THEN Asset(assets[i].id, duration)
     ELSE assets[i]]

\* {...s, ...patch} for a patch of one field
Patch(s, fld, val) == [s EXCEPT ![fld] = val]

\* prev.map(s => (s.id === id ? { ...s, ...patch } : s))
PatchSegment(segs, id, fld, val) ==
  [i \in 1..Len(segs) |->
     IF segs[i].id = id THEN Patch(segs[i], fld, val) ELSE segs[i]]

\* prev.filter(s => s.id !== id)
RECURSIVE Without(_, _)
Without(segs, id) ==
  IF segs = << >> THEN << >>
  ELSE IF segs[1].id = id THEN Without(Tail(segs), id)
  ELSE <<segs[1]>> \o Without(Tail(segs), id)

\* the registries as the mouse listeners see them: the listeners are
\* installed once, by an effect with an empty dependency list, and close
\* over the values of the first render
listenerVideoAssets == << >>
listenerAudioAssets == << >>

\* deltaPx / PIXELS_PER_SECOND
DeltaSeconds(clientX, initialX) ==
  NumDiv(clientX - initialX, PIXELS_PER_SECOND)

\* dragState.current.initialOffset + deltaSec, computed by the handler
DragUpdated(ds, clientX) ==
  Add(ds.initialOffset, DeltaSeconds(clientX, ds.initialX))

\* Math.max(0, updated): the timelineStart a drag move writes
DraggedTimelineStart(updated) == MathMax(Zero, updated)

\* a variant of the drag that moves every segment of the store
DraggedAll(segs, ds, updated) ==
  [i \in 1..Len(segs) |->
     [segs[i] EXCEPT !.timelineStart = DraggedTimelineStart(updated)]]

\* prev.map(seg => seg.id === dragState.current!.id ? {...seg,
\* timelineStart: Math.max(0, updated)} : seg), ds being dragState.current
\* as the updater finds it
Dragged(segs, ds, updated) ==
  PatchSegment(segs, ds.id, "timelineStart", DraggedTimelineStart(updated))

\* the sourceStart a resize move writes
ResizedSourceStart(rs, deltaSecs) ==
  IF rs.edge = "left"
  THEN MathMax(Zero, Add(rs.initialSourceStart, deltaSecs))
  ELSE rs.initialSourceStart

\* a variant of the resize whose start edge grows the duration with delta
ResizedCandidateGrow(rs, deltaSecs) == Add(rs.initialDuration, deltaSecs)

\* the duration a resize move asks for, before the clamp
ResizedCandidate(rs, deltaSecs) ==
  IF rs.edge = "left" THEN Sub(rs.initialDuration, deltaSecs)
  ELSE Add(rs.initialDuration, deltaSecs)

\* asset?.duration ?? Infinity
MaxOf(assets, assetId) ==
  LET asset == Find(assets, assetId)
  IN  IF asset = Null \/ asset.duration = Undefined THEN Infinity
      ELSE asset.duration

\* a variant of the clamp without the floor of a tenth of a second
ClampDurationNoFloor(newDuration, max, newStart) ==
  MathMin(newDuration, Sub(max, newStart))

\* Math.max(0.1, Math.min(newDuration, max - newStart))
ClampDuration(newDuration, max, newStart) ==
  MathMax(Tenth, MathMin(newDuration, Sub(max, newStart)))

\* a variant of the resize whose start edge carries the segment along on
\* the timeline
ResizedSegmentShiftsTimeline(seg, rs, deltaSecs, assets) ==
  CHOOSE r \in
    {[seg EXCEPT !.sourceStart = newStart,
                 !.duration = ClampDuration(ResizedCandidate(rs, deltaSecs),
                                            MaxOf(assets, seg.assetId),
                                            newStart),
                 !.timelineStart = Add(seg.timelineStart, deltaSecs)] :
       newStart \in {ResizedSourceStart(rs, deltaSecs)}} : TRUE

\* the segment a resize move writes for the captured segment; newStart is
\* bound so that it is evaluated once
ResizedSegment(seg, rs, deltaSecs, assets) ==
  CHOOSE r \in
    {[seg EXCEPT !.sourceStart = newStart,
                 !.duration = ClampDuration(ResizedCandidate(rs, deltaSecs),
                                            MaxOf(assets, seg.assetId),
                                            newStart)] :
       newStart \in {ResizedSourceStart(rs, deltaSecs)}} : TRUE

\* the updater of a resize move, rs being resizeState.current as the
\* updater finds it
Resized(segs, rs, deltaSecs, assets) ==
  [i \in 1..Len(segs) |->
     IF segs[i].id = rs.id
     THEN ResizedSegment(segs[i], rs, deltaSecs, assets)
     ELSE segs[i]]

\* the gesture ref an updater reads: dragState.current or
\* resizeState.current when the updater runs, which is at the render, or at
\* the setState call itself when React computed the state eagerly (ref then
\* holds what the updater read)
RefRead(u) ==
  IF u.ref # Null THEN u.ref
  ELSE IF u.kind = "drag" THEN dragState ELSE resizeState

\* the updater reads a field of a ref that is null: seg.id ===
\* dragState.current!.id, for the first element of prev
Throws(list, u) ==
  /\ u.kind \in {"drag", "resize"}
  /\ list # << >>
  /\ RefRead(u) = Null

\* the value an updater function returns for prev
Updated(prev, u) ==
  CASE u.kind = "append"   -> prev \o u.items
    [] u.kind = "duration" -> SetDuration(prev, u.id, u.val)
    [] u.kind = "patch"    -> PatchSegment(prev, u.id, u.fld, u.val)
    [] u.kind = "filter"   -> Without(prev, u.id)
    [] u.kind = "drag"     ->
         IF prev = << >> THEN << >> ELSE Dragged(prev, RefRead(u), u.val)
    [] u.kind = "resize"   ->
         IF prev = << >> THEN << >>
         ELSE Resized(prev, RefRead(u), u.val,
                      IF u.hook = "videoSegments" THEN listenerVideoAssets
                      ELSE listenerAudioAssets)

\* ids of the objects an updater builds anew: those of the elements its
\* map replaces by a copy
Rebuilt(prev, u) ==
  CASE u.kind \in {"duration", "patch"} -> {u.id} \cap Ids(prev)
    [] u.kind \in {"drag", "resize"} ->
         IF prev = << >> THEN {} ELSE {RefRead(u).id} \cap Ids(prev)
    [] OTHER -> {}

\* one queued update applied to the state React is rendering
Reduce(st, u) ==
  IF st.error THEN st
  ELSE CASE u.kind = "id"   -> [st EXCEPT ![u.hook] = u.id]
         [] u.kind = "flag" -> [st EXCEPT ![u.hook] = u.flag]
         [] OTHER ->
              IF Throws(st[u.hook], u) THEN [st EXCEPT !.error = TRUE]
              ELSE [st EXCEPT ![u.hook] = Updated(@, u),
                              !.touched[u.hook] =
                                @ \cup Rebuilt(st[u.hook], u)]

\* the queue applied in order
RECURSIVE Flush(_, _)
Flush(st, queue) ==
  IF queue = << >> THEN st
  ELSE CHOOSE r \in {Flush(Reduce(prev, Head(rest)), Tail(rest)) :
                       prev \in {st}, rest \in {queue}} : TRUE

----------------------------------------------------------------------------
(* Effects run after a render                                              *)

\* whether the object a selection resolves to differs between two renders;
\* touched holds the ids whose objects the render rebuilt
RefChanged(old, new, touched) ==
  IF old = Null \/ new = Null THEN (old = Null) # (new = Null)
  ELSE old.id # new.id \/ new.id \in touched

\* the preview element of a render, named by the asset whose url is its
\* src (NullId where the render has none)
VideoElement(st) ==
  CHOOSE el \in UNION {{IF asset = Null THEN NullId ELSE asset.id :
      asset \in {IF seg = Null THEN Null
                 ELSE Find(st.videoAssets, seg.assetId)}} :
    seg \in {Find(st.videoSegments, st.selectedVideoSegmentId)}} : TRUE

AudioElement(st) ==
  CHOOSE el \in UNION {{IF asset = Null THEN NullId ELSE asset.id :
      asset \in {IF seg = Null THEN Null
                 ELSE Find(st.audioAssets, seg.assetId)}} :
    seg \in {Find(st.audioSegments, st.selectedAudioSegmentId)}} : TRUE

\* a variant of the video effect that resumes without seeking
VideoSeekEffectPlayOnly(old, new, touched) ==
  CHOOSE calls \in UNION {{
      LET was  == Find(old.videoSegments, old.selectedVideoSegmentId)
          deps == \/ RefChanged(was, seg, touched.videoSegments)
                  \/ RefChanged(IF was = Null THEN Null
                                ELSE Find(old.videoAssets, was.assetId),
                                asset, touched.videoAssets)
                  \/ new.isPlaying # old.isPlaying
      IN  IF asset = Null \/ seg = Null \/ ~new.isPlaying \/ ~deps THEN << >>
          ELSE <<Cmd("play", asset.id, Zero)>> :
      asset \in {IF seg = Null THEN Null
                 ELSE Find(new.videoAssets, seg.assetId)}} :
    seg \in {Find(new.videoSegments, new.selectedVideoSegmentId)}} : TRUE

\* useEffect on [selectedVideoSegment, selectedVideoAsset, isPlaying], for
\* the render new that follows the render old
VideoSeekEffect(old, new, touched) ==
  CHOOSE calls \in UNION {{
      LET was  == Find(old.videoSegments, old.selectedVideoSegmentId)
          deps == \/ RefChanged(was, seg, touched.videoSegments)
                  \/ RefChanged(IF was = Null THEN Null
                                ELSE Find(old.videoAssets, was.assetId),
                                asset, touched.videoAssets)
                  \/ new.isPlaying # old.isPlaying
      IN  IF asset = Null \/ seg = Null \/ ~new.isPlaying \/ ~deps THEN << >>
          ELSE <<Cmd("seek", asset.id, seg.sourceStart),
                 Cmd("play", asset.id, Zero)>> :
      asset \in {IF seg = Null THEN Null
                 ELSE Find(new.videoAssets, seg.assetId)}} :
    seg \in {Find(new.videoSegments, new.selectedVideoSegmentId)}} : TRUE

\* useEffect on [selectedAudioSegment, selectedAudioAsset, isAudioPlaying]
AudioSeekEffect(old, new, touched) ==
  CHOOSE calls \in UNION {{
      LET was  == Find(old.audioSegments, old.selectedAudioSegmentId)
          deps == \/ RefChanged(was, seg, touched.audioSegments)
                  \/ RefChanged(IF was = Null THEN Null
                                ELSE Find(old.audioAssets, was.assetId),
                                asset, touched.audioAssets)
                  \/ new.isAudioPlaying # old.isAudioPlaying
      IN  IF asset = Null \/ seg = Null \/ ~new.isAudioPlaying \/ ~deps
          THEN << >>
          ELSE <<Cmd("seek", asset.id, seg.sourceStart),
                 Cmd("play", asset.id, Zero)>> :
      asset \in {IF seg = Null THEN Null
                 ELSE Find(new.audioAssets, seg.assetId)}} :
    seg \in {Find(new.audioSegments, new.selectedAudioSegmentId)}} : TRUE

\* the calls the effects of the last render make when React runs them, if
\* it has yet to
PendingVideoEffects ==
  IF stale = Null THEN << >>
  ELSE VideoSeekEffect(stale.prev, Values(Committed), stale.touched)

PendingAudioEffects ==
  IF stale = Null THEN << >>
  ELSE AudioSeekEffect(stale.prev, Values(Committed), stale.touched)

\* what React keeps of the render prev once it has committed the render st
\* in a task of its own: the effects of st run in a later task, and until
\* then the timeupdate listeners are the ones the effects of prev
\* installed.  Nothing is kept where the effects can do nothing and either
\* listener does the same as the one that replaces it: where st changed no
\* state and rebuilt no object, or where both schedulers are Stopped in
\* prev and in st
Stale(prev, st) ==
  IF \/ /\ Values(st) = prev
        /\ \A h \in DOMAIN st.touched : st.touched[h] = {}
     \/ /\ ~prev.isPlaying /\ ~st.isPlaying
        /\ ~prev.isAudioPlaying /\ ~st.isAudioPlaying
  THEN Null
  ELSE [prev |-> prev, touched |-> st.touched]

\* a variant in which the listeners are replaced as React commits
ListeningCommitted == Values(Committed)

\* the render whose effects ran last: the one the timeupdate listeners
\* close over
Listening == IF stale = Null THEN Values(Committed) ELSE stale.prev

\* media.currentTime = t: the element seeks no earlier than the start of
\* its medium and no later than its end, max being the duration of the
\* medium (Infinity while the duration is not known)
SeekTarget(t, max) == MathMin(MathMax(Zero, t), max)

\* currentTime of a preview element after the calls cmds, assets being the
\* registry that holds the media of the track
RECURSIVE TimeAfter(_, _, _)
TimeAfter(time, cmds, assets) ==
  IF cmds = << >> THEN time
  ELSE TimeAfter(IF Head(cmds).cmd = "seek"
                 THEN SeekTarget(Head(cmds).t, MaxOf(assets, Head(cmds).src))
                 ELSE time,
                 Tail(cmds), assets)

\* number of media.play() calls among the calls of a step
Plays(cmds) == Cardinality({i \in 1..Len(cmds) : cmds[i].cmd = "play"})

\* the promises not yet settled after a step that made the calls cmds, n of
\* them being unsettled before: every media.play() returns a promise of its
\* own, with a catch handler of its own
Promised(n, cmds) == n + Plays(cmds)

\* every media.play() of the step leaves a promise behind; a step that
\* would leave more than MaxPlayPromises of them unsettled on a track is
\* not explored
PromisesFollowed ==
  /\ playPromises' =
       [video |-> Promised(playPromises.video, videoCmds'),
        audio |-> Promised(playPromises.audio, audioCmds')]
  /\ playPromises'.video <= MaxPlayPromises
  /\ playPromises'.audio <= MaxPlayPromises

\* React ran effects in the steps it took since the last event
EffectsRan == last.op \in {"render", "flushPassiveEffects"} /\ last.fx

\* React renders the component in the state st and commits it; vCalls and
\* aCalls are the calls the handler of the step made on the media elements
\* before.  React first runs the effects of the last render, if it has yet
\* to.  The effects of this render run at once when the render is the one
\* of a discrete event (sync), else in a later task.  A preview element that
\* is mounted, or whose src changes, starts at position 0, and none stands
\* past the end of its medium once the duration is known.  An updater that
\* throws aborts the render: nothing is committed and, there being no error
\* boundary, React unmounts the root
Render(ev, st, sync, vCalls, aCalls) ==
  \E vDue \in {PendingVideoEffects}, aDue \in {PendingAudioEffects} :
    /\ last' = [ev EXCEPT !.fx = (stale # Null \/ EffectsRan)]
    /\ mounted' = ~st.error
    /\ IF st.error
       THEN /\ UNCHANGED <<registries, videoTrack, audioTrack>>
            /\ stale' = Null
            /\ videoCmds' = vCalls \o vDue
            /\ audioCmds' = aCalls \o aDue
            /\ videoTime' = TimeAfter(videoTime, vDue, videoAssets)
            /\ audioTime' = TimeAfter(audioTime, aDue, audioAssets)
       ELSE /\ videoAssets' = st.videoAssets
            /\ audioAssets' = st.audioAssets
            /\ videoSegments' = st.videoSegments
            /\ audioSegments' = st.audioSegments
            /\ selectedVideoSegmentId' = st.selectedVideoSegmentId
            /\ selectedAudioSegmentId' = st.selectedAudioSegmentId
            /\ isPlaying' = st.isPlaying
            /\ isAudioPlaying' = st.isAudioPlaying
            /\ stale' = (IF sync THEN Null ELSE Stale(Values(Committed), st))
            /\ \E vNow \in {IF sync
                            THEN VideoSeekEffect(Values(Committed), st,
                                                 st.touched)
                            ELSE << >>},
                  aNow \in {IF sync
                            THEN AudioSeekEffect(Values(Committed), st,
                                                 st.touched)
                            ELSE << >>} :
                 /\ videoCmds' = vCalls \o vDue \o vNow
                 /\ audioCmds' = aCalls \o aDue \o aNow
                 /\ videoTime' =
                      SeekTarget(
                        TimeAfter(IF VideoElement(st) # videoRef THEN Zero
                                  ELSE TimeAfter(videoTime, vDue, videoAssets),
                                  vNow, st.videoAssets),
                        MaxOf(st.videoAssets, VideoElement(st)))
                 /\ audioTime' =
                      SeekTarget(
                        TimeAfter(IF AudioElement(st) # audioRef THEN Zero
                                  ELSE TimeAfter(audioTime, aDue, audioAssets),
                                  aNow, st.audioAssets),
                        MaxOf(st.audioAssets, AudioElement(st)))

\* the newest of the queued events React has yet to render
RECURSIVE Newest(_)
Newest(batches) ==
  IF ~batches[Len(batches)].sync THEN batches[Len(batches)].ev
  ELSE Newest(SubSeq(batches, 1, Len(batches) - 1))

\* the event of a render in a task of its own: the render has no event, it
\* reports the values of the newest event whose updates it applies
Flushing == [Newest(pending) EXCEPT !.op = "render",
                                    !.of = Newest(pending).op,
                                    !.n = Len(pending)]

\* the state variables that have an update queued which React has yet to
\* render
RECURSIVE Skipped(_)
Skipped(batches) ==
  IF batches = << >> THEN {}
  ELSE (IF Head(batches).sync THEN {}
        ELSE {Head(batches).updates[i].hook :
                i \in 1..Len(Head(batches).updates)})
         \cup Skipped(Tail(batches))

\* the updates of a rendered event that stay queued: those for a state
\* variable in hooks, which React applies again, after the ones it skipped
RECURSIVE Rebased(_, _)
Rebased(updates, hooks) ==
  IF updates = << >> THEN << >>
  ELSE (IF Head(updates).hook \in hooks THEN <<Head(updates)>> ELSE << >>)
         \o Rebased(Tail(updates), hooks)

\* the updates of the rendered events that stay queued, in one sequence
RECURSIVE Kept(_)
Kept(batches) ==
  IF batches = << >> THEN << >>
  ELSE (IF Head(batches).sync THEN Head(batches).updates ELSE << >>)
         \o Kept(Tail(batches))

\* the state the render of a discrete event starts from: a state variable
\* that has an update queued which the render skips is computed again from
\* the state that update was queued in
Rebasing ==
  [h \in DOMAIN Committed |->
     IF h \in Skipped(pending) THEN baseState[h] ELSE Committed[h]]

\* an event handler ran: it made the calls vCalls and aCalls on the media
\* elements and the setState calls updates.  After a discrete event (click,
\* change, mousedown) that called setState React renders before it returns
\* to the event loop, and renders the updates of that event alone: the ones
\* queued by earlier events stay queued, and where one of them is for the
\* same state variable the update of this event joins them.  React applies
\* the updates that joined the queue again in every render, in the order of
\* the calls, and their updaters build their objects anew each time.  After
\* any other event (loadedmetadata, timeupdate, mousemove) React renders in
\* a later task.  A timeupdate reports the position the video element has
\* reached
Handle(ev, updates, discrete, vCalls, aCalls) ==
  /\ mounted
  /\ IF discrete /\ updates # << >>
     THEN /\ \E st \in {Flush(Rebasing, Kept(pending) \o updates)} :
               /\ Render(ev, st, TRUE, vCalls, aCalls)
               /\ baseState' =
                    (IF pending = << >> \/ st.error THEN baseState
                     ELSE [h \in DOMAIN baseState |->
                             IF h \in Skipped(pending) THEN baseState[h]
                             ELSE st[h]])
          /\ \E kept \in {Rebased(updates, Skipped(pending))} :
               pending' = (IF pending = << >> THEN << >>
                           ELSE Append(pending, Batch(NoEvent, kept, TRUE)))
     ELSE /\ pending' = (IF updates = << >> THEN pending
                         ELSE Append(Settled(pending),
                                     Batch(ev, updates, FALSE)))
          /\ baseState' = (IF pending = << >> /\ updates # << >>
                           THEN Values(Committed) ELSE baseState)
          /\ UNCHANGED <<registries, videoTrack, audioTrack, mounted, stale>>
          /\ videoCmds' = vCalls
          /\ audioCmds' = aCalls
          /\ videoTime' = (IF ev.op = "onVideoTimeUpdate" THEN ev.val
                           ELSE videoTime)
          /\ audioTime' = (IF ev.op = "onAudioTimeUpdate" THEN ev.val
                           ELSE audioTime)
          /\ last' = ev
  /\ PromisesFollowed

\* React renders, in the task it scheduled for them, the updates queued by
\* earlier events: it applies the queue, oldest first, to the state the
\* oldest of them was queued in
render ==
  /\ mounted
  /\ pending # << >>
  /\ \E st \in {Flush(Base, Queue)} :
       Render(Flushing, st, FALSE, << >>, << >>)
  /\ pending' = << >>
  /\ baseState' = Null
  /\ PromisesFollowed
  /\ UNCHANGED <<refs, counters>>

\* React runs, in a task of their own, the effects of a render it committed
\* in an earlier task: the seek effects, then the effects that replace the
\* timeupdate listeners
flushPassiveEffects ==
  /\ mounted
  /\ stale # Null
  /\ videoCmds' = PendingVideoEffects
  /\ audioCmds' = PendingAudioEffects
  /\ videoTime' = TimeAfter(videoTime, PendingVideoEffects, videoAssets)
  /\ audioTime' = TimeAfter(audioTime, PendingAudioEffects, audioAssets)
  /\ stale' = Null
  /\ last' = [last EXCEPT !.op = "flushPassiveEffects",
                           !.of = (IF last.op \in {"render",
                                                   "flushPassiveEffects"}
                                   THEN last.of ELSE last.op),
                           !.fx = TRUE]
  /\ PromisesFollowed
  /\ UNCHANGED <<registries, videoTrack, audioTrack, pending, baseState,
                 mounted, refs, counters>>

Init ==
  /\ videoAssets = << >> /\ audioAssets = << >>
  /\ videoSegments = << >> /\ audioSegments = << >>
  /\ isPlaying = FALSE /\ isAudioPlaying = FALSE
  /\ selectedVideoSegmentId = NullId /\ selectedAudioSegmentId = NullId
  /\ pending = << >> /\ baseState = Null /\ stale = Null /\ mounted = TRUE
  /\ videoTime = Zero /\ audioTime = Zero
  /\ dragState = Null /\ resizeState = Null
  /\ playPromises = [video |-> 0, audio |-> 0]
  /\ gestures = 0 /\ edits = 0
  /\ videoCmds = << >> /\ audioCmds = << >>
  /\ last = Event("init", NullId, 0, "", Zero)

----------------------------------------------------------------------------
(* Asset registry                                                          *)

\* handleVideoUpload with n files: n assets, durations not yet known
handleVideoUpload(n) ==
  /\ Handle(Event("handleVideoUpload", NullId, n, "", Zero),
            <<Appending("videoAssets",
                        [k \in 1..n |-> Asset(createId(k), Undefined)])>>,
            TRUE, << >>, << >>)
  /\ UNCHANGED <<refs, counters>>

handleAudioUpload(n) ==
  /\ Handle(Event("handleAudioUpload", NullId, n, "", Zero),
            <<Appending("audioAssets",
                        [k \in 1..n |-> Asset(createId(k), Undefined)])>>,
            TRUE, << >>, << >>)
  /\ UNCHANGED <<refs, counters>>

\* handleVideoLoadedMetadata called with any asset id
handleVideoLoadedMetadataCall(assetId, duration) ==
  /\ Handle(Event("handleVideoLoadedMetadata", assetId, 0, "", duration),
            <<SettingDuration("videoAssets", assetId, duration)>>,
            FALSE, << >>, << >>)
  /\ UNCHANGED <<refs, counters>>

\* !asset.duration: the duration is undefined or 0
NoDuration(asset) == asset.duration = Undefined \/ asset.duration = Zero

\* the hidden element of an asset, rendered while the asset has no
\* duration, reports its metadata
handleVideoLoadedMetadata(assetId, duration) ==
  /\ \E i \in 1..Len(videoAssets) :
       videoAssets[i].id = assetId /\ NoDuration(videoAssets[i])
  /\ handleVideoLoadedMetadataCall(assetId, duration)

handleAudioLoadedMetadataCall(assetId, duration) ==
  /\ Handle(Event("handleAudioLoadedMetadata", assetId, 0, "", duration),
            <<SettingDuration("audioAssets", assetId, duration)>>,
            FALSE, << >>, << >>)
  /\ UNCHANGED <<refs, counters>>

handleAudioLoadedMetadata(assetId, duration) ==
  /\ \E i \in 1..Len(audioAssets) :
       audioAssets[i].id = assetId /\ NoDuration(audioAssets[i])
  /\ handleAudioLoadedMetadataCall(assetId, duration)

----------------------------------------------------------------------------
(* Creating segments                                                       *)

\* asset.duration ?? 10
DefaultDuration(asset) ==
  IF asset.duration = Undefined THEN Num(10) ELSE asset.duration

\* the segment "+ Timeline" creates for an asset
NewSegment(id, asset) ==
  Segment(id, asset.id, Zero, DefaultDuration(asset), Zero)

addVideoToTimeline(asset) ==
  /\ LET newId == createId(1)
     IN  Handle(Event("addVideoToTimeline", newId, 0, "", Zero),
                <<Appending("videoSegments", <<NewSegment(newId, asset)>>),
                  SetId("selectedVideoSegmentId", newId)>>,
                TRUE, << >>, << >>)
  /\ UNCHANGED <<refs, counters>>

addAudioToTimeline(asset) ==
  /\ LET newId == createId(1)
     IN  Handle(Event("addAudioToTimeline", newId, 0, "", Zero),
                <<Appending("audioSegments", <<NewSegment(newId, asset)>>),
                  SetId("selectedAudioSegmentId", newId)>>,
                TRUE, << >>, << >>)
  /\ UNCHANGED <<refs, counters>>

\* the stubbed answer of the highlight backend
HIGHLIGHTS ==
  <<[start |-> Num(2), end |-> Num(4)],
    [start |-> Num(6), end |-> Num(7)],
    [start |-> Num(9), end |-> Num(10)]>>

\* a variant of the map that takes the end of a range for its duration
RangeSegmentsEndAsDuration(ranges, asset, base) ==
  [k \in 1..Len(ranges) |->
     Segment(createId(base + k), asset.id, ranges[k].start,
             ranges[k].end, Zero)]

\* ranges.map(h => ...) for one asset; base ids were handed out before
RangeSegments(ranges, asset, base) ==
  [k \in 1..Len(ranges) |->
     Segment(createId(base + k), asset.id, ranges[k].start,
             Sub(ranges[k].end, ranges[k].start), Zero)]

\* HIGHLIGHTS.map(h => ...)
HighlightSegments(asset, base) == RangeSegments(HIGHLIGHTS, asset, base)

\* setVideoSegments(prev => [...prev, ...newSegments]);
\* setSelectedVideoSegmentId(newSegments[0].id)
AppendAndSelectFirst(newSegments) ==
  <<Appending("videoSegments", newSegments),
    SetId("selectedVideoSegmentId",
          IF Len(newSegments) = 0 THEN NullId ELSE newSegments[1].id)>>

\* a variant of the handler without the guard on an empty result
applyHighlightsUnguarded(asset, ranges) ==
  /\ Handle(Event("handleAutoCutForAsset", asset.id, Len(ranges), "", Zero),
            AppendAndSelectFirst(RangeSegments(ranges, asset, 0)),
            TRUE, << >>, << >>)
  /\ UNCHANGED <<refs, counters>>

\* the body of handleAutoCutForAsset, for the range list its local
\* constant HIGHLIGHTS holds
applyHighlights(asset, ranges) ==
  /\ LET newSegments == RangeSegments(ranges, asset, 0)
     IN  Handle(Event("handleAutoCutForAsset", asset.id, Len(ranges), "",
                      Zero),
                IF Len(newSegments) = 0 THEN << >>
                ELSE AppendAndSelectFirst(newSegments),
                TRUE, << >>, << >>)
  /\ UNCHANGED <<refs, counters>>

handleAutoCutForAsset(asset) == applyHighlights(asset, HIGHLIGHTS)

\* a variant of the loop that stops after the first asset
AllHighlightSegmentsFirstOnly(assets, base) ==
  IF assets = << >> THEN << >> ELSE HighlightSegments(assets[1], base)

\* videoAssets.forEach(asset => allNewSegments.push(...))
RECURSIVE AllHighlightSegments(_, _)
AllHighlightSegments(assets, base) ==
  IF assets = << >> THEN << >>
  ELSE HighlightSegments(assets[1], base)
         \o AllHighlightSegments(Tail(assets), base + Len(HIGHLIGHTS))

handleAutoCutAll ==
  /\ LET allNewSegments == AllHighlightSegments(videoAssets, 0)
     IN  Handle(Event("handleAutoCutAll", NullId, 0, "", Zero),
                IF Len(videoAssets) = 0 \/ Len(allNewSegments) = 0
                THEN << >>
                ELSE AppendAndSelectFirst(allNewSegments),
                TRUE, << >>, << >>)
  /\ UNCHANGED <<refs, counters>>

----------------------------------------------------------------------------
(* Selecting, editing and deleting segments                                *)

\* onClick of a segment of the video track
selectVideoSegment(id) ==
  /\ id \in Ids(videoSegments)
  /\ Handle(Event("selectVideoSegment", id, 0, "", Zero),
            <<SetId("selectedVideoSegmentId", id)>>, TRUE, << >>, << >>)
  /\ UNCHANGED <<refs, counters>>

selectAudioSegment(id) ==
  /\ id \in Ids(audioSegments)
  /\ Handle(Event("selectAudioSegment", id, 0, "", Zero),
            <<SetId("selectedAudioSegmentId", id)>>, TRUE, << >>, << >>)
  /\ UNCHANGED <<refs, counters>>

\* updateVideoSegment called with any segment id
updateVideoSegmentCall(id, fld, val) ==
  /\ edits' = edits + 1
  /\ Handle(Event("updateVideoSegment", id, 0, fld, val),
            <<Patching("videoSegments", id, fld, val)>>, TRUE, << >>, << >>)
  /\ UNCHANGED <<refs, gestures>>

\* a numeric field of the edit panel of the selected video segment changes
updateVideoSegment(id, fld, val) ==
  /\ selectedVideoSegment # Null /\ id = selectedVideoSegment.id
  /\ updateVideoSegmentCall(id, fld, val)

updateAudioSegmentCall(id, fld, val) ==
  /\ edits' = edits + 1
  /\ Handle(Event("updateAudioSegment", id, 0, fld, val),
            <<Patching("audioSegments", id, fld, val)>>, TRUE, << >>, << >>)
  /\ UNCHANGED <<refs, gestures>>

updateAudioSegment(id, fld, val) ==
  /\ selectedAudioSegment # Null /\ id = selectedAudioSegment.id
  /\ updateAudioSegmentCall(id, fld, val)

\* a variant of the delete that drops the selection whatever the id
deleteVideoSegmentCallDeselects(id) ==
  /\ Handle(Event("deleteVideoSegment", id, 0, "", Zero),
            <<Filtering("videoSegments", id),
              SetId("selectedVideoSegmentId", NullId)>>,
            TRUE, << >>, << >>)
  /\ UNCHANGED <<refs, counters>>

\* deleteVideoSegment called with any segment id; selectedVideoSegmentId
\* is the one of the last render
deleteVideoSegmentCall(id) ==
  /\ Handle(Event("deleteVideoSegment", id, 0, "", Zero),
            <<Filtering("videoSegments", id)>>
              \o (IF selectedVideoSegmentId = id
                  THEN <<SetId("selectedVideoSegmentId", NullId)>>
                  ELSE << >>),
            TRUE, << >>, << >>)
  /\ UNCHANGED <<refs, counters>>

\* the delete button of a segment of the video track
deleteVideoSegment(id) ==
  /\ id \in Ids(videoSegments)
  /\ deleteVideoSegmentCall(id)

deleteAudioSegmentCall(id) ==
  /\ Handle(Event("deleteAudioSegment", id, 0, "", Zero),
            <<Filtering("audioSegments", id)>>
              \o (IF selectedAudioSegmentId = id
                  THEN <<SetId("selectedAudioSegmentId", NullId)>>
                  ELSE << >>),
            TRUE, << >>, << >>)
  /\ UNCHANGED <<refs, counters>>

deleteAudioSegment(id) ==
  /\ id \in Ids(audioSegments)
  /\ deleteAudioSegmentCall(id)

----------------------------------------------------------------------------
(* Drag and resize gestures                                                *)

\* mouse-down on the body of a segment of either track
onSegmentMouseDown(clientX, segmentId, initialTimelineStart) ==
  /\ gestures' = gestures + 1
  /\ dragState' = [id |-> segmentId, initialX |-> clientX,
                   initialOffset |-> initialTimelineStart]
  /\ Handle(Event("onSegmentMouseDown", segmentId, clientX, "", Zero),
            << >>, TRUE, << >>, << >>)
  /\ UNCHANGED <<resizeState, edits>>

\* mouse-down on a resize handle of a segment (propagation stopped, so no
\* drag starts)
onResizeMouseDown(clientX, seg, edge) ==
  /\ gestures' = gestures + 1
  /\ resizeState' = [id |-> seg.id, edge |-> edge, initialX |-> clientX,
                     initialSourceStart |-> seg.sourceStart,
                     initialDuration |-> seg.duration]
  /\ Handle(Event("onResizeMouseDown", seg.id, clientX, edge, Zero),
            << >>, TRUE, << >>, << >>)
  /\ UNCHANGED <<dragState, edits>>

\* the setState calls of a mousemove, in order: the two of the drag part
\* while a drag is in progress, then the two of onResize while a resize is
\* in progress
MoveUpdates(clientX) ==
  (IF dragState = Null THEN << >>
   ELSE <<Dragging("videoSegments", DragUpdated(dragState, clientX)),
          Dragging("audioSegments", DragUpdated(dragState, clientX))>>)
    \o (IF resizeState = Null THEN << >>
        ELSE <<Resizing("videoSegments",
                        DeltaSeconds(clientX, resizeState.initialX)),
               Resizing("audioSegments",
                        DeltaSeconds(clientX, resizeState.initialX))>>)

\* an updater React ran at the setState call: it read the ref then
Eager(u) ==
  [u EXCEPT !.ref = IF u.kind = "drag" THEN dragState ELSE resizeState]

\* mousemove on the window.  When no update is queued React may compute the
\* state of the first setState call eagerly, running its updater within the
\* handler (it does unless the component's fiber still carries the lanes of
\* an earlier update); either happens.  The event records which gesture
\* the handler found in progress
onMouseMove(clientX) ==
  /\ \E eager \in (IF pending = << >> /\ MoveUpdates(clientX) # << >>
                   THEN {FALSE, TRUE} ELSE {FALSE}) :
       \E updates \in {MoveUpdates(clientX)} :
         Handle(Event("onMouseMove", NullId, clientX,
                      IF dragState # Null THEN "drag"
                      ELSE IF resizeState # Null THEN "resize" ELSE "",
                      Zero),
                IF eager THEN <<Eager(Head(updates))>> \o Tail(updates)
                ELSE updates,
                FALSE, << >>, << >>)
  /\ UNCHANGED <<refs, counters>>

\* a variant of the release that ends the drag only
onMouseUpDragOnly ==
  /\ dragState' = Null
  /\ Handle(Event("onMouseUp", NullId, 0, "", Zero), << >>, FALSE,
            << >>, << >>)
  /\ UNCHANGED <<resizeState, counters>>

\* mouseup on the window
onMouseUp ==
  /\ dragState' = Null
  /\ resizeState' = Null
  /\ Handle(Event("onMouseUp", NullId, 0, "", Zero), << >>, FALSE,
            << >>, << >>)
  /\ UNCHANGED counters

----------------------------------------------------------------------------
(* Playback schedulers                                                     *)

\* the segment playback starts from: the selected one, else sorted[0]
StartSegment(selected, segs) ==
  IF selected # Null THEN selected
  ELSE IF Len(segs) > 0 THEN SortByTimelineStart(segs)[1]
  ELSE Null

\* the setState calls of a toggle, for the scheduler state, the selection
\* and the track of the last render
ToggleUpdates(idHook, flagHook, playing, selected, segs) ==
  IF playing THEN <<SetFlag(flagHook, FALSE)>>
  ELSE LET startSegment == StartSegment(selected, segs)
       IN  (IF selected = Null /\ startSegment # Null
            THEN <<SetId(idHook, startSegment.id)>> ELSE << >>)
             \o (IF startSegment # Null
                 THEN <<SetFlag(flagHook, TRUE)>> ELSE << >>)

\* the Play/Pause button of the video preview
togglePlayback ==
  /\ Handle(Event("togglePlayback", NullId, 0, "", Zero),
            IF videoRef = NullId THEN << >>
            ELSE ToggleUpdates("selectedVideoSegmentId", "isPlaying",
                               isPlaying, selectedVideoSegment,
                               videoSegments),
            TRUE,
            IF videoRef # NullId /\ isPlaying
            THEN <<Cmd("pause", videoRef, Zero)>> ELSE << >>,
            << >>)
  /\ UNCHANGED <<refs, counters>>

toggleAudioPlayback ==
  /\ Handle(Event("toggleAudioPlayback", NullId, 0, "", Zero),
            IF audioRef = NullId THEN << >>
            ELSE ToggleUpdates("selectedAudioSegmentId", "isAudioPlaying",
                               isAudioPlaying, selectedAudioSegment,
                               audioSegments),
            TRUE, << >>,
            IF audioRef # NullId /\ isAudioPlaying
            THEN <<Cmd("pause", audioRef, Zero)>> ELSE << >>)
  /\ UNCHANGED <<refs, counters>>

\* selectedSegment.sourceStart + selectedSegment.duration
StopAt(seg) == Add(seg.sourceStart, seg.duration)

\* media.currentTime >= stopAt (stopAt is computed once, when the effect
\* installs the listener)
ReachedEnd(currentTime, seg) ==
  \E stopAt \in {StopAt(seg)} : ~Lt(currentTime, stopAt)

\* what a timeupdate listener does once the position is at or past stopAt:
\* it selects next, or with no next it stops and pauses the element
EndReached(ev, idHook, flagHook, next, element, video) ==
  Handle(ev,
         IF next # Null THEN <<SetId(idHook, next.id)>>
         ELSE <<SetFlag(flagHook, FALSE)>>,
         FALSE,
         IF next = Null /\ video
         THEN <<Cmd("pause", element, Zero)>> ELSE << >>,
         IF next = Null /\ ~video
         THEN <<Cmd("pause", element, Zero)>> ELSE << >>)

\* timeupdate of the video preview element, reporting currentTime.  The
\* listener is the one installed by the effects that ran last, on the
\* element of their render and only if that render had a selected segment;
\* it closes over the values of that render
onVideoTimeUpdate(currentTime) ==
  /\ \E st \in {Listening} :
       \E seg \in {Find(st.videoSegments, st.selectedVideoSegmentId)} :
         /\ VideoElement(st) # NullId
         /\ videoRef # NullId
         /\ LET ev == Event("onVideoTimeUpdate", NullId, 0, "", currentTime)
            IN  IF ~st.isPlaying \/ ~ReachedEnd(currentTime, seg)
                THEN Handle(ev, << >>, FALSE, << >>, << >>)
                ELSE EndReached(ev, "selectedVideoSegmentId", "isPlaying",
                                getNextVideoSegment(st), videoRef, TRUE)
  /\ UNCHANGED <<refs, counters>>

\* timeupdate of the audio preview element
onAudioTimeUpdate(currentTime) ==
  /\ \E st \in {Listening} :
       \E seg \in {Find(st.audioSegments, st.selectedAudioSegmentId)} :
         /\ AudioElement(st) # NullId
         /\ audioRef # NullId
         /\ LET ev == Event("onAudioTimeUpdate", NullId, 0, "", currentTime)
            IN  IF ~st.isAudioPlaying \/ ~ReachedEnd(currentTime, seg)
                THEN Handle(ev, << >>, FALSE, << >>, << >>)
                ELSE EndReached(ev, "selectedAudioSegmentId",
                                "isAudioPlaying",
                                NextAfter(st.audioSegments, seg.id),
                                audioRef, FALSE)
  /\ UNCHANGED <<refs, counters>>

\* a variant of the rejection handler that gives playback up
onPlayRejectedStops(track) ==
  /\ playPromises[track] > 0
  /\ playPromises' = [playPromises EXCEPT ![track] = @ - 1]
  /\ isPlaying' = (IF track = "video" THEN FALSE ELSE isPlaying)
  /\ isAudioPlaying' = (IF track = "audio" THEN FALSE ELSE isAudioPlaying)
  /\ UNCHANGED <<registries, videoSegments, audioSegments,
                 selectedVideoSegmentId, selectedAudioSegmentId,
                 scheduled, positions, mounted, refs, counters>>
  /\ videoCmds' = << >> /\ audioCmds' = << >>
  /\ last' = Event("onPlayRejected", NullId, 0, track, Zero)

\* the promise of a media.play() made by safePlay, pending since some
\* earlier step, rejects: p.catch logs a warning and does nothing else
onPlayRejected(track) ==
  /\ playPromises[track] > 0
  /\ playPromises' = [playPromises EXCEPT ![track] = @ - 1]
  /\ UNCHANGED <<registries, videoTrack, audioTrack, scheduled, positions,
                 mounted, refs, counters>>
  /\ videoCmds' = << >> /\ audioCmds' = << >>
  /\ last' = Event("onPlayRejected", NullId, 0, track, Zero)

----------------------------------------------------------------------------
(* The component as a state machine                                        *)

Range(seq) == {seq[i] : i \in 1..Len(seq)}

Fields == {"sourceStart", "duration", "timelineStart"}

\* room left in a registry, on the two tracks together, in the budgets of
\* gestures and of numeric edits, and in the queue of updates for one more
\* event that React renders later
AssetRoom(assets) == MaxAssets - Len(assets)
SegmentRoom == MaxSegments - Len(videoSegments) - Len(audioSegments)
MayGesture == gestures < MaxGestures
MayEdit == edits < MaxEdits
MayQueue == Len(pending) < MaxPending

Upload ==
  \/ /\ MayQueue
     /\ \E n \in 1..AssetRoom(videoAssets) : handleVideoUpload(n)
  \/ /\ MayQueue
     /\ \E n \in 1..AssetRoom(audioAssets) : handleAudioUpload(n)

LoadedMetadata ==
  \/ /\ MayQueue
     /\ \E a \in Range(videoAssets), d \in AssetDurations :
          handleVideoLoadedMetadata(a.id, d)
  \/ /\ MayQueue
     /\ \E a \in Range(audioAssets), d \in AssetDurations :
          handleAudioLoadedMetadata(a.id, d)

AddToTimeline ==
  \/ /\ MayQueue /\ SegmentRoom >= 1
     /\ \E a \in Range(videoAssets) : addVideoToTimeline(a)
  \/ /\ MayQueue /\ SegmentRoom >= 1
     /\ \E a \in Range(audioAssets) : addAudioToTimeline(a)

AutoCut ==
  \/ /\ MayQueue /\ SegmentRoom >= Len(HIGHLIGHTS)
     /\ \E a \in Range(videoAssets) : handleAutoCutForAsset(a)
  \/ /\ MayQueue /\ SegmentRoom >= Len(videoAssets) * Len(HIGHLIGHTS)
     /\ handleAutoCutAll

Select ==
  \/ /\ MayQueue
     /\ \E s \in Range(videoSegments) : selectVideoSegment(s.id)
  \/ /\ MayQueue
     /\ \E s \in Range(audioSegments) : selectAudioSegment(s.id)

Update ==
  \/ /\ MayQueue /\ MayEdit
     /\ \E f \in Fields, v \in EditValues :
          updateVideoSegment(selectedVideoSegmentId, f, v)
  \/ /\ MayQueue /\ MayEdit
     /\ \E f \in Fields, v \in EditValues :
          updateAudioSegment(selectedAudioSegmentId, f, v)

\* the timelineStart field of the edit panel alone
Reposition ==
  \/ /\ MayQueue /\ MayEdit
     /\ \E v \in EditValues :
          updateVideoSegment(selectedVideoSegmentId, "timelineStart", v)
  \/ /\ MayQueue /\ MayEdit
     /\ \E v \in EditValues :
          updateAudioSegment(selectedAudioSegmentId, "timelineStart", v)

Delete ==
  \/ /\ MayQueue
     /\ \E s \in Range(videoSegments) : deleteVideoSegment(s.id)
  \/ /\ MayQueue
     /\ \E s \in Range(audioSegments) : deleteAudioSegment(s.id)

MouseDown ==
  \/ /\ MayGesture
     /\ \E x \in DownXs, s \in Range(videoSegments) \cup Range(audioSegments) :
          onSegmentMouseDown(x, s.id, s.timelineStart)
  \/ /\ MayGesture
     /\ \E x \in DownXs, s \in Range(videoSegments) \cup Range(audioSegments),
           e \in {"left", "right"} : onResizeMouseDown(x, s, e)

MouseMove ==
  /\ MayQueue
  /\ \E x \in MoveXs : onMouseMove(x)

\* the video button is disabled while the track is empty; the audio button
\* is rendered only while a selected audio asset exists
Toggle ==
  \/ MayQueue /\ Len(videoSegments) > 0 /\ togglePlayback
  \/ MayQueue /\ selectedAudioAsset # Null /\ toggleAudioPlayback

\* positions of the medium asset of a preview element that the model has
\* the element report: the ones of CurrentTimes, the ends of the segments
\* cut from the medium (the positions the listeners compare with) and the
\* end of the medium, none of them past that end where the duration is
\* known
Positions(assets, segs, asset) ==
  {t \in (CurrentTimes
            \cup {StopAt(segs[i]) : i \in {j \in 1..Len(segs) :
                                             segs[j].assetId = asset}}
            \cup {MaxOf(assets, asset)}) \ {Infinity} :
     Le(Zero, t) /\ SeekTarget(t, MaxOf(assets, asset)) = t}

\* positions the video preview can report: it has no controls, so between
\* two seeks its position only moves forward, up to the end of the medium
VideoPositions ==
  {t \in Positions(videoAssets, videoSegments, videoRef) : Le(videoTime, t)}

\* positions the audio preview can report: it has controls, which set any
\* position of the medium
AudioPositions == Positions(audioAssets, audioSegments, audioRef)

TimeUpdate ==
  \/ /\ MayQueue
     /\ \E t \in VideoPositions : onVideoTimeUpdate(t)
  \/ /\ MayQueue
     /\ \E t \in AudioPositions : onAudioTimeUpdate(t)

\* every event of the component
Next ==
  \/ Upload \/ LoadedMetadata \/ AddToTimeline \/ AutoCut
  \/ Select \/ Update \/ Delete
  \/ MouseDown \/ MouseMove \/ onMouseUp
  \/ Toggle \/ TimeUpdate
  \/ render \/ flushPassiveEffects

Spec == Init /\ [][Next]_vars

\* uploads to one registry, while the other holds no asset: the session
\* works on one track
UploadOneTrack ==
  \/ /\ MayQueue /\ audioAssets = << >>
     /\ \E n \in 1..AssetRoom(videoAssets) : handleVideoUpload(n)
  \/ /\ MayQueue /\ videoAssets = << >>
     /\ \E n \in 1..AssetRoom(audioAssets) : handleAudioUpload(n)

\* the editing surface of one track: segments are placed, edited, dragged,
\* resized
NextGesture ==
  \/ UploadOneTrack \/ LoadedMetadata \/ AddToTimeline \/ Update
  \/ MouseDown \/ MouseMove \/ onMouseUp
  \/ render

GestureSpec == Init /\ [][NextGesture]_vars

\* gestures on the two tracks side by side
NextFrame ==
  \/ Upload \/ AddToTimeline
  \/ MouseDown \/ MouseMove \/ onMouseUp
  \/ render

FrameSpec == Init /\ [][NextFrame]_vars

\* room on the track of a session that works on one track
TrackRoom == MaxTrackSegments - Len(videoSegments) - Len(audioSegments)

AddToTrack ==
  \/ /\ MayQueue /\ TrackRoom >= 1
     /\ \E a \in Range(videoAssets) : addVideoToTimeline(a)
  \/ /\ MayQueue /\ TrackRoom >= 1
     /\ \E a \in Range(audioAssets) : addAudioToTimeline(a)

\* the segment store and the scheduler of one track: no pointer gesture
NextPlay ==
  \/ UploadOneTrack \/ AddToTrack
  \/ Select \/ Reposition \/ Delete
  \/ Toggle \/ TimeUpdate
  \/ render \/ flushPassiveEffects

PlaySpec == Init /\ [][NextPlay]_vars

\* the sourceStart field of the edit panel alone
Retrim ==
  \/ /\ MayQueue /\ MayEdit
     /\ \E v \in EditValues :
          updateVideoSegment(selectedVideoSegmentId, "sourceStart", v)
  \/ /\ MayQueue /\ MayEdit
     /\ \E v \in EditValues :
          updateAudioSegment(selectedAudioSegmentId, "sourceStart", v)

\* uploads of several assets to one registry, while the other holds none
UploadSeveral ==
  \/ /\ MayQueue /\ audioAssets = << >>
     /\ \E n \in 1..(MaxSeekAssets - Len(videoAssets)) : handleVideoUpload(n)
  \/ /\ MayQueue /\ videoAssets = << >>
     /\ \E n \in 1..(MaxSeekAssets - Len(audioAssets)) : handleAudioUpload(n)

\* playback of one track whose segments cut from different assets and
\* start at different positions of their media
NextSeek ==
  \/ UploadSeveral \/ AddToTimeline
  \/ Select \/ Retrim
  \/ Toggle \/ TimeUpdate
  \/ render \/ flushPassiveEffects

SeekSpec == Init /\ [][NextSeek]_vars

\* the duration field of the edit panel alone, with a budget of its own
Shorten ==
  \/ /\ MayQueue /\ edits < MaxRepeatEdits
     /\ \E v \in EditValues :
          updateVideoSegment(selectedVideoSegmentId, "duration", v)
  \/ /\ MayQueue /\ edits < MaxRepeatEdits
     /\ \E v \in EditValues :
          updateAudioSegment(selectedAudioSegmentId, "duration", v)

\* playback of one track whose segments are given a duration in the edit
\* panel
NextRepeat ==
  \/ UploadOneTrack \/ AddToTimeline
  \/ Select \/ Shorten
  \/ Toggle \/ TimeUpdate
  \/ render \/ flushPassiveEffects

RepeatSpec == Init /\ [][NextRepeat]_vars

\* the two tracks side by side: segments are added, selected and deleted
\* on both, and one of the two is played (the one played first)
NextDuo ==
  \/ Upload \/ AddToTimeline
  \/ Select \/ Delete
  \/ /\ MayQueue /\ Len(videoSegments) > 0 /\ playPromises.audio = 0
     /\ togglePlayback
  \/ /\ MayQueue /\ selectedAudioAsset # Null /\ playPromises.video = 0
     /\ toggleAudioPlayback
  \/ TimeUpdate
  \/ render \/ flushPassiveEffects

DuoSpec == Init /\ [][NextDuo]_vars

\* the same with a media element that may reject a play request
PlayRejected == onPlayRejected("video") \/ onPlayRejected("audio")

NextEngine ==
  \/ /\ MayQueue /\ audioAssets = << >>
     /\ \E n \in 1..AssetRoom(videoAssets) : handleVideoUpload(n)
  \/ /\ MayQueue /\ videoAssets = << >>
     /\ \E n \in 1..AssetRoom(audioAssets) : handleAudioUpload(n)
  \/ AddToTimeline \/ Select \/ Reposition \/ Delete
  \/ Toggle \/ TimeUpdate
  \/ render \/ flushPassiveEffects
  \/ PlayRejected

EngineSpec == Init /\ [][NextEngine]_vars

\* a move or a release with no gesture in progress changes nothing
GestureActive == dragState # Null \/ resizeState # Null

\* an id that a store does not hold: the one createId would hand out next
MissingIds(store) == {createId(1)} \ Ids(store)

\* the editing helpers and the metadata handlers of the track the session
\* works on, called with a reference their store does not hold
MissingRef ==
  \/ /\ MayQueue /\ MayEdit /\ videoAssets # << >>
     /\ \E id \in MissingIds(videoSegments), v \in EditValues :
          updateVideoSegmentCall(id, "timelineStart", v)
  \/ /\ MayQueue /\ MayEdit /\ audioAssets # << >>
     /\ \E id \in MissingIds(audioSegments), v \in EditValues :
          updateAudioSegmentCall(id, "timelineStart", v)
  \/ /\ MayQueue /\ videoAssets # << >>
     /\ \E id \in MissingIds(videoSegments) : deleteVideoSegmentCall(id)
  \/ /\ MayQueue /\ audioAssets # << >>
     /\ \E id \in MissingIds(audioSegments) : deleteAudioSegmentCall(id)
  \/ /\ MayQueue /\ videoAssets # << >>
     /\ \E id \in MissingIds(videoAssets), d \in AssetDurations :
          handleVideoLoadedMetadataCall(id, d)
  \/ /\ MayQueue /\ audioAssets # << >>
     /\ \E id \in MissingIds(audioAssets), d \in AssetDurations :
          handleAudioLoadedMetadataCall(id, d)

\* the media elements have been asked to play MaxRefPlays times at most
FewPlays == playPromises.video + playPromises.audio <= MaxRefPlays

\* one track at a time: segments are placed, played, deleted, dragged and
\* resized by the end edge, and calls miss their reference in between
NextRef ==
  \/ /\ MayQueue /\ audioAssets = << >>
     /\ \E n \in 1..AssetRoom(videoAssets) : handleVideoUpload(n)
     /\ FewPlays'
  \/ /\ MayQueue /\ videoAssets = << >>
     /\ \E n \in 1..AssetRoom(audioAssets) : handleAudioUpload(n)
     /\ FewPlays'
  \/ AddToTimeline /\ FewPlays'
  \/ Delete /\ FewPlays'
  \/ Toggle /\ FewPlays'
  \/ /\ MayGesture
     /\ \E x \in DownXs, s \in Range(videoSegments) \cup Range(audioSegments) :
          onSegmentMouseDown(x, s.id, s.timelineStart)
     /\ FewPlays'
  \/ /\ MayGesture
     /\ \E x \in DownXs, s \in Range(videoSegments) \cup Range(audioSegments) :
          onResizeMouseDown(x, s, "right")
     /\ FewPlays'
  \/ /\ GestureActive /\ MayQueue
     /\ \E x \in RefMoveXs : onMouseMove(x)
     /\ FewPlays'
  \/ /\ GestureActive
     /\ onMouseUp
  \/ MissingRef /\ FewPlays'
  \/ render /\ FewPlays'
  \/ flushPassiveEffects /\ FewPlays'

RefSpec == Init /\ [][NextRef]_vars

\* a run of playback, the first of the session: media are uploaded and
\* report their metadata, segments are added, laid out and selected while
\* both schedulers are Stopped and no media.play() has been called yet; once
\* one is Playing only the media element speaks, and it keeps reporting
\* positions, among them ones at or past the end of the segment selected
\* (the notifications on which the scheduler acts), and React renders what
\* they queue
Quiet ==
  /\ ~isPlaying /\ ~isAudioPlaying
  /\ playPromises.video = 0 /\ playPromises.audio = 0

DueVideo ==
  /\ MayQueue
  /\ \E t \in VideoPositions :
       /\ onVideoTimeUpdate(t)
       /\ pending' # pending

DueAudio ==
  /\ MayQueue
  /\ \E t \in AudioPositions :
       /\ onAudioTimeUpdate(t)
       /\ pending' # pending

NextRun ==
  \/ /\ MayQueue /\ Quiet /\ audioAssets = << >>
     /\ \E n \in 1..AssetRoom(videoAssets) : handleVideoUpload(n)
  \/ /\ MayQueue /\ Quiet /\ videoAssets = << >>
     /\ \E n \in 1..AssetRoom(audioAssets) : handleAudioUpload(n)
  \/ /\ MayQueue /\ Quiet /\ TrackRoom >= 1
     /\ \E a \in Range(videoAssets) : addVideoToTimeline(a)
  \/ /\ MayQueue /\ Quiet /\ TrackRoom >= 1
     /\ \E a \in Range(audioAssets) : addAudioToTimeline(a)
  \/ /\ MayQueue /\ Quiet /\ edits < MaxSortEdits
     /\ \E v \in SortStarts :
          updateVideoSegment(selectedVideoSegmentId, "timelineStart", v)
  \/ /\ MayQueue /\ Quiet /\ edits < MaxSortEdits
     /\ \E v \in SortStarts :
          updateAudioSegment(selectedAudioSegmentId, "timelineStart", v)
  \/ Quiet /\ LoadedMetadata
  \/ Quiet /\ Select
  \/ Quiet /\ Toggle
  \/ TimeUpdate
  \/ render \/ flushPassiveEffects

RunSpec ==
  Init /\ [][NextRun]_vars
    /\ WF_vars(DueVideo) /\ WF_vars(DueAudio)
    /\ WF_vars(render) /\ WF_vars(flushPassiveEffects)

\* laying segments out on the video track: segments are added, given a
\* timelineStart, selected and deleted
NextSort ==
  \/ \E n \in 1..AssetRoom(videoAssets) : handleVideoUpload(n)
  \/ /\ TrackRoom >= 1
     /\ \E a \in Range(videoAssets) : addVideoToTimeline(a)
  \/ \E s \in Range(videoSegments) : selectVideoSegment(s.id)
  \/ /\ edits < MaxSortEdits
     /\ \E v \in SortStarts :
          updateVideoSegment(selectedVideoSegmentId, "timelineStart", v)
  \/ \E s \in Range(videoSegments) : deleteVideoSegment(s.id)

SortSpec == Init /\ [][NextSort]_vars

\* filling the video track: uploads, add-to-timeline and the two AutoCut
\* buttons, with segments selected in between
CutRoom == MaxCutSegments - Len(videoSegments)

NextCut ==
  \/ \E n \in 1..(MaxCutAssets - Len(videoAssets)) : handleVideoUpload(n)
  \/ /\ CutRoom >= 1
     /\ \E a \in Range(videoAssets) : addVideoToTimeline(a)
  \/ /\ CutRoom >= Len(HIGHLIGHTS)
     /\ \E a \in Range(videoAssets) : handleAutoCutForAsset(a)
  \/ /\ CutRoom >= Len(videoAssets) * Len(HIGHLIGHTS)
     /\ handleAutoCutAll
  \/ \E s \in Range(videoSegments) : selectVideoSegment(s.id)

CutSpec == Init /\ [][NextCut]_vars

\* range lists the body of handleAutoCutForAsset is run on: the one the
\* source gives HIGHLIGHTS, and the empty one its guard provides for
RangeLists == {HIGHLIGHTS, << >>}

\* the video track filled by add-to-timeline and by the body of
\* handleAutoCutForAsset run on either range list
NextRange ==
  \/ \E n \in 1..AssetRoom(videoAssets) : handleVideoUpload(n)
  \/ /\ Len(videoSegments) < MaxRangeSegments
     /\ \E a \in Range(videoAssets) : addVideoToTimeline(a)
  \/ \E a \in Range(videoAssets), ranges \in RangeLists :
       /\ Len(videoSegments) + Len(ranges) <= MaxRangeSegments
       /\ applyHighlights(a, ranges)
  \/ \E s \in Range(videoSegments) : selectVideoSegment(s.id)
  \/ \E s \in Range(videoSegments) : deleteVideoSegment(s.id)

RangeSpec == Init /\ [][NextRange]_vars

----------------------------------------------------------------------------
(* Properties of the gestures                                              *)

\* the state React renders from what is committed and what is queued: what
\* the handlers that ran so far have set
Outcome == Flush(Base, Queue)

AllSegments == Range(Outcome.videoSegments) \cup Range(Outcome.audioSegments)

\* the asset a segment of either track cuts from, as the registries hold it
AssetOf(seg) ==
  IF seg \in Range(Outcome.videoSegments) THEN Find(videoAssets, seg.assetId)
  ELSE Find(audioAssets, seg.assetId)

\* a move has just been handled while a resize gesture was active
ResizeMoved == last.op = "onMouseMove" /\ resizeState # Null

\* a resize move has just been handled and the queue sets values: no
\* updater in it throws (where one does, React commits nothing of it)
ResizeSet == ResizeMoved /\ ~Outcome.error

\* a move has just been handled while a drag gesture was active
DragMoved == last.op = "onMouseMove" /\ dragState # Null

\* React has just rendered what a move had queued
MoveRendered == last.op = "render" /\ last.of = "onMouseMove"

\* C1: after a resize move on a segment whose asset has a known duration,
\* sourceStart + duration of the segment does not exceed that duration
C1_ResizeWithinAsset ==
  ResizeMoved =>
    \A seg \in AllSegments :
      (/\ seg.id = resizeState.id
       /\ AssetOf(seg) # Null
       /\ AssetOf(seg).duration # Undefined)
      => Le(ExactAdd(seg.sourceStart, seg.duration), AssetOf(seg).duration)

UnclampedStartMove(seg) ==
  LET rs    == resizeState
      delta == NumDiv(last.x - rs.initialX, PIXELS_PER_SECOND)
      start == Add(rs.initialSourceStart, delta)
      cand  == Add(rs.initialDuration, Neg(delta))
  IN  /\ ResizeSet
      /\ rs.edge = "left"
      /\ seg.id = rs.id
      /\ Le(Zero, start)
      /\ Le(Tenth, cand)
      /\ (AssetOf(seg) # Null /\ AssetOf(seg).duration # Undefined)
           => Le(cand, Add(AssetOf(seg).duration, Neg(start)))

\* |sourceStart + duration - (initialSourceStart + initialDuration)|, exact
SumDrift(seg) ==
  ExactAdd(ExactAdd(seg.sourceStart, seg.duration),
           Neg(ExactAdd(resizeState.initialSourceStart,
                        resizeState.initialDuration))).mag

\* one unit in the last place of a double, on the 2^-60 grid (a double of
\* 53 bits or fewer on the grid is written without rounding)
Ulp(x) ==
  IF MagBitLen(x.mag) <= 53 THEN MagZero
  ELSE <<0, 0, 2^(MagBitLen(x.mag) - 53)>>

\* C3, as stated: an unclamped start-edge resize leaves sourceStart +
\* duration equal to initialSourceStart + initialDuration (read either as
\* the exact sums or as the sums the language computes)
C3_StartEdgePreservesEnd ==
  \A seg \in AllSegments :
    UnclampedStartMove(seg)
    => \/ SumDrift(seg) = MagZero
       \/ Add(seg.sourceStart, seg.duration)
            = Add(resizeState.initialSourceStart, resizeState.initialDuration)

\* C3, amended: the values an unclamped start-edge move sets have
\* sourceStart + duration within one unit in the last place (of the larger
\* of the two values) of initialSourceStart + initialDuration, and equal to
\* it when neither of the two values was rounded
C3_StartEdgePreservesEndRounded ==
  \A seg \in AllSegments :
    UnclampedStartMove(seg)
    => LET delta  == NumDiv(last.x - resizeState.initialX, PIXELS_PER_SECOND)
           larger == MathMax(seg.sourceStart, seg.duration)
       IN  /\ MagCmp(SumDrift(seg), Ulp(larger)) <= 0
           /\ (/\ seg.sourceStart
                    = ExactAdd(resizeState.initialSourceStart, delta)
               /\ seg.duration
                    = ExactAdd(resizeState.initialDuration, Neg(delta)))
              => SumDrift(seg) = MagZero

\* an unclamped start-edge move after which the end has drifted by rounding
C3_Witness ==
  \E seg \in AllSegments :
    UnclampedStartMove(seg) /\ SumDrift(seg) # MagZero

\* C4: a drag move by d pixels sets the timelineStart of the dragged
\* segment to max(0, initialTimelineStart + d / PIXELS_PER_SECOND), where
\* initialTimelineStart and the pointer origin are those captured at the
\* mouse-down; the result is never negative, and the render of the move
\* commits it
C4_DragFormula ==
  /\ DragMoved =>
       \A seg \in AllSegments :
         seg.id = dragState.id
         => LET moved == Add(dragState.initialOffset,
                             NumDiv(last.x - dragState.initialX, 80))
            IN  /\ seg.timelineStart
                     = (IF Lt(moved, Zero) THEN Zero ELSE moved)
                /\ ~seg.timelineStart.neg
  /\ last.op = "onSegmentMouseDown" =>
       /\ dragState # Null /\ dragState.initialX = last.x
       /\ \A seg \in AllSegments :
            seg.id = dragState.id
            => dragState.initialOffset = seg.timelineStart
  /\ (MoveRendered /\ last.fld = "drag") => mounted

----------------------------------------------------------------------------
(* Properties of the schedulers and of add-to-timeline                     *)

\* segs[i] comes before segs[j] in the order by timelineStart, ties kept in
\* the order of the collection
Before(segs, i, j) ==
  \/ Lt(segs[i].timelineStart, segs[j].timelineStart)
  \/ segs[i].timelineStart = segs[j].timelineStart /\ i < j

\* the id of the segment that follows segs[i] in that order, NullId if none
SuccessorId(segs, i) ==
  LET after == {j \in 1..Len(segs) : Before(segs, i, j)}
  IN  IF after = {} THEN NullId
      ELSE segs[CHOOSE j \in after :
                  \A k \in after \ {j} : Before(segs, j, k)].id

\* the id of the first segment in that order
FirstId(segs) ==
  segs[CHOOSE j \in 1..Len(segs) :
         \A k \in 1..Len(segs) \ {j} : Before(segs, j, k)].id

\* position of the segment with a given id
Position(segs, id) == CHOOSE i \in 1..Len(segs) : segs[i].id = id

\* cmds holds seek(t) directly followed by play, both on the handle src
SeekThenPlay(cmds, src, t) ==
  \E i \in 1..(Len(cmds) - 1) :
    cmds[i] = Cmd("seek", src, t) /\ cmds[i + 1] = Cmd("play", src, Zero)

Paused(cmds) == \E i \in 1..Len(cmds) : cmds[i].cmd = "pause"

\* what one scheduler must do on a toggle from Stopped with no selection
StartsFromFirst(segs, sel, selNext, playing, playingNext) ==
  (~playing /\ sel = NullId)
  => IF Len(segs) > 0
     THEN selNext = FirstId(segs) /\ playingNext
     ELSE selNext = sel /\ playingNext = playing

\* C5: togglePlayback in Stopped, on a track with segments and no selected
\* segment, selects the first segment in timeline order and goes to
\* Playing; on a track with no segments it changes nothing
C5_ToggleFromStopped ==
  [][/\ last'.op = "togglePlayback"
        => /\ StartsFromFirst(videoSegments, selectedVideoSegmentId,
                              Outcome'.selectedVideoSegmentId,
                              isPlaying, Outcome'.isPlaying)
           /\ Outcome'.videoSegments = Outcome.videoSegments
     /\ last'.op = "toggleAudioPlayback"
        => /\ StartsFromFirst(audioSegments, selectedAudioSegmentId,
                              Outcome'.selectedAudioSegmentId,
                              isAudioPlaying, Outcome'.isAudioPlaying)
           /\ Outcome'.audioSegments = Outcome.audioSegments]_vars

\* what one scheduler must set on a progress notification while Playing
\* when the selected segment has a successor; sel and playing are what the
\* listener sees, was and now what is set before and after it ran
Advances(segs, sel, playing, was, now, currentTime) ==
  (playing /\ sel \in Ids(segs))
  => LET i    == Position(segs, sel)
         stop == Add(segs[i].sourceStart, segs[i].duration)
     IN  IF Le(stop, currentTime)
         THEN SuccessorId(segs, i) # NullId
              => now.sel = SuccessorId(segs, i) /\ now.playing
         ELSE now = was

\* the selection and the scheduler state set on each track
VideoSet == [sel     |-> Outcome.selectedVideoSegmentId,
             playing |-> Outcome.isPlaying]
AudioSet == [sel     |-> Outcome.selectedAudioSegmentId,
             playing |-> Outcome.isAudioPlaying]

\* C6: while Playing, a progress notification at or past sourceStart +
\* duration of the selected segment selects the next segment, if there is
\* one, and stays Playing; a notification below it changes neither
C6_AdvanceOnThreshold ==
  [][/\ last'.op = "onVideoTimeUpdate"
        => Advances(videoSegments, selectedVideoSegmentId, isPlaying,
                    VideoSet, VideoSet', last'.val)
     /\ last'.op = "onAudioTimeUpdate"
        => Advances(audioSegments, selectedAudioSegmentId, isAudioPlaying,
                    AudioSet, AudioSet', last'.val)]_vars

\* what one scheduler must do on a progress notification while Playing
\* when the selected segment is the last one
StopsAtEnd(segs, sel, playing, was, now, cmds, currentTime) ==
  (playing /\ sel \in Ids(segs))
  => LET i    == Position(segs, sel)
         stop == Add(segs[i].sourceStart, segs[i].duration)
     IN  (Le(stop, currentTime) /\ SuccessorId(segs, i) = NullId)
         => ~now.playing /\ Paused(cmds) /\ now.sel = was.sel

\* C7: while Playing, a progress notification at or past sourceStart +
\* duration of the selected segment, when that segment is the last in
\* timeline order, stops the scheduler, issues pause and keeps the selection
C7_StopAtLast ==
  [][/\ last'.op = "onVideoTimeUpdate"
        => StopsAtEnd(videoSegments, selectedVideoSegmentId, isPlaying,
                      VideoSet, VideoSet', videoCmds', last'.val)
     /\ last'.op = "onAudioTimeUpdate"
        => StopsAtEnd(audioSegments, selectedAudioSegmentId, isAudioPlaying,
                      AudioSet, AudioSet', audioCmds', last'.val)]_vars

\* C8: togglePlayback in Playing always stops the scheduler and issues
\* pause, also after the selected segment was deleted during playback
C8_ToggleFromPlaying ==
  [][/\ (last'.op = "togglePlayback" /\ isPlaying)
        => ~Outcome'.isPlaying /\ Paused(videoCmds')
     /\ (last'.op = "toggleAudioPlayback" /\ isAudioPlaying)
        => ~Outcome'.isAudioPlaying /\ Paused(audioCmds')]_vars

\* what the media element must be told when a scheduler enters Playing or
\* its selection moves to another segment while Playing
Reseeks(segs, assets, sel, selNext, playing, playingNext, cmds) ==
  (playingNext /\ selNext \in Ids(segs) /\ (~playing \/ selNext # sel))
  => LET seg == segs[Position(segs, selNext)]
     IN  /\ seg.assetId \in Ids(assets)
         /\ SeekThenPlay(cmds, seg.assetId, seg.sourceStart)

\* the same for the two schedulers, from the render old to the render new
ReseeksBoth(old, new, vCmds, aCmds) ==
  /\ Reseeks(new.videoSegments, new.videoAssets,
             old.selectedVideoSegmentId, new.selectedVideoSegmentId,
             old.isPlaying, new.isPlaying, vCmds)
  /\ Reseeks(new.audioSegments, new.audioAssets,
             old.selectedAudioSegmentId, new.selectedAudioSegmentId,
             old.isAudioPlaying, new.isAudioPlaying, aCmds)

\* the values of the last render
Rendered == Values(Committed)

\* C9: when a scheduler enters Playing, or its selection changes to another
\* segment while Playing, the media element of the selected segment's asset
\* is issued seek(selected.sourceStart) and then play.  The calls are made
\* when React runs the effects of the render that entered Playing or moved
\* the selection: in the step of the render where it is the render of a
\* discrete event, else in a later step, and before anything else is
\* rendered
C9_SeekThenPlay ==
  [][/\ (stale # Null /\ stale' # stale)
          => ReseeksBoth(stale.prev, Rendered, videoCmds', audioCmds')
     /\ (stale # Null /\ stale' = stale) => Rendered' = Rendered
     /\ Rendered' # Rendered
          => IF stale' = Null
             THEN ReseeksBoth(Rendered, Rendered', videoCmds', audioCmds')
             ELSE stale'.prev = Rendered]_vars

\* React has just run, in a task of their own, the effects of the render
\* of a selection that a notification moved on while Playing, to a segment
\* of the second of two assets
C9_Witness ==
  /\ last.op = "flushPassiveEffects"
  /\ last.of = "onVideoTimeUpdate"
  /\ isPlaying
  /\ Len(videoAssets) = 2
  /\ selectedVideoSegment # Null
  /\ selectedVideoSegment.assetId = videoAssets[2].id
  /\ videoSegments[1].assetId = videoAssets[1].id
  /\ SeekThenPlay(videoCmds, videoAssets[2].id,
                  selectedVideoSegment.sourceStart)

\* what add-to-timeline must do to the track it adds to
Appends(segs, segsNext, selNext, used) ==
  /\ Len(segsNext) = Len(segs) + 1
  /\ SubSeq(segsNext, 1, Len(segs)) = segs
  /\ segsNext[Len(segsNext)].id \notin used
  /\ selNext = segsNext[Len(segsNext)].id

\* C10: add-to-timeline appends exactly one segment with a fresh id to its
\* track, leaves every existing segment unchanged and selects the new one,
\* in what React renders for the event and in what is set
C10_AddAppendsAndSelects ==
  [][/\ last'.op = "addVideoToTimeline"
        => /\ Appends(videoSegments, videoSegments',
                      selectedVideoSegmentId', UsedIds)
           /\ Appends(Outcome.videoSegments, Outcome'.videoSegments,
                      Outcome'.selectedVideoSegmentId, UsedIds)
           /\ audioSegments' = audioSegments
           /\ Outcome'.audioSegments = Outcome.audioSegments
     /\ last'.op = "addAudioToTimeline"
        => /\ Appends(audioSegments, audioSegments',
                      selectedAudioSegmentId', UsedIds)
           /\ Appends(Outcome.audioSegments, Outcome'.audioSegments,
                      Outcome'.selectedAudioSegmentId, UsedIds)
           /\ videoSegments' = videoSegments
           /\ Outcome'.videoSegments = Outcome.videoSegments]_vars

\* a segment has just been added to a video track that already held one
C10_Witness ==
  /\ last.op = "addVideoToTimeline"
  /\ Len(videoSegments) = 2
  /\ selectedVideoSegmentId = videoSegments[2].id
  /\ videoSegments[1].id # videoSegments[2].id

----------------------------------------------------------------------------
(* Properties of the segment stores                                        *)

\* segsNext is segs with the one segment of the given id taken out
RemovesExactly(segs, segsNext, id) ==
  \E i \in 1..Len(segs) :
    /\ segs[i].id = id
    /\ Len(segsNext) = Len(segs) - 1
    /\ \A j \in 1..Len(segsNext) :
         segsNext[j] = IF j < i THEN segs[j] ELSE segs[j + 1]

\* the selection a delete of id must leave, sel being the selection before
Deselects(sel, id) == IF sel = id THEN NullId ELSE sel

\* C11: delete(id) removes exactly the segment with that id from its track;
\* the selection of the track becomes null if it was id and is unchanged
\* otherwise.  Both hold of what React renders for the event and of what
\* is set, the notifications handled before the delete included; the other
\* track keeps its segments and its selection
C11_DeleteRemovesOne ==
  [][/\ last'.op = "deleteVideoSegment"
        => /\ RemovesExactly(videoSegments, videoSegments', last'.id)
           /\ RemovesExactly(Outcome.videoSegments, Outcome'.videoSegments,
                             last'.id)
           /\ selectedVideoSegmentId'
                = Deselects(selectedVideoSegmentId, last'.id)
           /\ Outcome'.selectedVideoSegmentId
                = Deselects(Outcome.selectedVideoSegmentId, last'.id)
           /\ audioSegments' = audioSegments
           /\ selectedAudioSegmentId' = selectedAudioSegmentId
     /\ last'.op = "deleteAudioSegment"
        => /\ RemovesExactly(audioSegments, audioSegments', last'.id)
           /\ RemovesExactly(Outcome.audioSegments, Outcome'.audioSegments,
                             last'.id)
           /\ selectedAudioSegmentId'
                = Deselects(selectedAudioSegmentId, last'.id)
           /\ Outcome'.selectedAudioSegmentId
                = Deselects(Outcome.selectedAudioSegmentId, last'.id)
           /\ videoSegments' = videoSegments
           /\ selectedVideoSegmentId' = selectedVideoSegmentId]_vars

\* the segment that follows the one with the given id in the order by
\* timelineStart, ties in insertion order; Null if it is last or not found
SuccessorOf(segs, id) ==
  IF id \notin Ids(segs) THEN Null
  ELSE LET sid == SuccessorId(segs, Position(segs, id))
       IN  IF sid = NullId THEN Null ELSE segs[Position(segs, sid)]

\* a progress notification moves the selection to the successor or not at
\* all
AdvancesToSuccessor(segs, sel, was, now) ==
  now.sel # was.sel
  => SuccessorOf(segs, sel) # Null /\ now.sel = SuccessorOf(segs, sel).id

\* C12: the segment the scheduler advances to is the one immediately after
\* the selected segment in the order ascending by timelineStart, ties in
\* insertion order, and there is none when the selected segment is last or
\* not found
C12_NextIsSuccessor ==
  [][/\ getNextVideoSegment(Committed)
          = SuccessorOf(videoSegments, selectedVideoSegmentId)
     /\ selectedAudioSegment # Null
        => NextAfter(audioSegments, selectedAudioSegment.id)
             = SuccessorOf(audioSegments, selectedAudioSegmentId)
     /\ last'.op = "onVideoTimeUpdate"
        => AdvancesToSuccessor(videoSegments, selectedVideoSegmentId,
                               VideoSet, VideoSet')
     /\ last'.op = "onAudioTimeUpdate"
        => AdvancesToSuccessor(audioSegments, selectedAudioSegmentId,
                               AudioSet, AudioSet')]_vars

\* the collections that hold the segments of segs, each once, in any order
Reorderings(segs) ==
  LET n == Len(segs)
  IN  {[i \in 1..n |-> segs[p[i]]] :
         p \in {q \in [1..n -> 1..n] :
                  \A i, j \in 1..n : q[i] = q[j] => i = j}}

DistinctStarts(segs) ==
  \A i, j \in 1..Len(segs) :
    segs[i].timelineStart = segs[j].timelineStart => i = j

\* out lists the segments of segs ascending by timelineStart, equal ones
\* in the order they have in segs
StableSorted(segs, out) ==
  /\ Len(out) = Len(segs)
  /\ Range(out) = Range(segs)
  /\ \A i, j \in 1..Len(out) :
       i < j => /\ ~Lt(out[j].timelineStart, out[i].timelineStart)
                /\ out[i].timelineStart = out[j].timelineStart
                   => Position(segs, out[i].id) < Position(segs, out[j].id)

\* C13, as stated: the same segments inserted in any order give the same
\* sequence ordered by timelineStart
C13_OrderIndependent ==
  \A segs \in Reorderings(videoSegments) :
    SortByTimelineStart(segs) = SortByTimelineStart(videoSegments)

\* C13, amended: the same segments inserted in any order give the same
\* sequence ordered by timelineStart when their timelineStart values are
\* pairwise distinct; segments with equal timelineStart come out in the
\* order in which they were inserted
C13_OrderIndependentUpToTies ==
  \A segs \in Reorderings(videoSegments) :
    /\ StableSorted(segs, SortByTimelineStart(segs))
    /\ DistinctStarts(videoSegments)
       => SortByTimelineStart(segs) = SortByTimelineStart(videoSegments)

\* three segments with pairwise distinct timelineStart, held out of order
C13_Witness ==
  /\ Len(videoSegments) = 3
  /\ DistinctStarts(videoSegments)
  /\ Lt(videoSegments[3].timelineStart, videoSegments[1].timelineStart)
  /\ last.op = "updateVideoSegment"

----------------------------------------------------------------------------
(* Properties of AutoCut                                                   *)

\* (sourceStart, duration) of the segments cut from the ranges (2,4),
\* (6,7), (9,10)
CutPairs == <<<<2, 2>>, <<6, 1>>, <<9, 1>>>>

\* new holds the three segments cut from one asset, with ids that are
\* fresh and differ from each other
CutFrom(new, assetId, used) ==
  /\ Len(new) = 3
  /\ \A k \in 1..3 :
       /\ new[k].assetId = assetId
       /\ new[k].sourceStart = Num(CutPairs[k][1])
       /\ new[k].duration = Num(CutPairs[k][2])
       /\ new[k].timelineStart = Zero
       /\ new[k].id \notin used
       /\ \A j \in 1..3 : new[j].id = new[k].id => j = k

\* C14: AutoCut of one asset appends exactly three video segments, in range
\* order, with (sourceStart, duration) = (2,2), (6,1), (9,1), timelineStart
\* 0 and the assetId of that asset, leaves the segments already there
\* unchanged and selects the first segment created
C14_AutoCutOneAsset ==
  [][last'.op = "handleAutoCutForAsset"
     => LET n == Len(videoSegments)
        IN  /\ Len(videoSegments') = n + 3
            /\ SubSeq(videoSegments', 1, n) = videoSegments
            /\ CutFrom(SubSeq(videoSegments', n + 1, n + 3), last'.id,
                       UsedIds)
            /\ selectedVideoSegmentId' = videoSegments'[n + 1].id
            /\ audioSegments' = audioSegments
            /\ selectedAudioSegmentId' = selectedAudioSegmentId]_vars

\* AutoCut of the second of two assets has just run on a track that held
\* segments already
C14_Witness ==
  /\ last.op = "handleAutoCutForAsset"
  /\ Len(videoAssets) = 2
  /\ last.id = videoAssets[2].id
  /\ Len(videoSegments) > 3
  /\ selectedVideoSegmentId = videoSegments[Len(videoSegments) - 2].id

\* C15: AutoCut of all assets, with n >= 1 video assets registered, appends
\* in one update exactly 3n segments, the three ranges of each asset in
\* registry order, and selects the first segment created; with no video
\* asset registered it changes neither the segments nor the selection
C15_AutoCutAll ==
  [][last'.op = "handleAutoCutAll"
     => LET n == Len(videoSegments)
            m == Len(videoAssets)
        IN  /\ IF m = 0
               THEN /\ videoSegments' = videoSegments
                    /\ selectedVideoSegmentId' = selectedVideoSegmentId
               ELSE /\ Len(videoSegments') = n + 3 * m
                    /\ SubSeq(videoSegments', 1, n) = videoSegments
                    /\ \A a \in 1..m :
                         CutFrom(SubSeq(videoSegments', n + 3 * a - 2,
                                        n + 3 * a),
                                 videoAssets[a].id, UsedIds)
                    /\ \A i, j \in 1..(n + 3 * m) :
                         videoSegments'[i].id = videoSegments'[j].id
                         => i = j
                    /\ selectedVideoSegmentId' = videoSegments'[n + 1].id
            /\ audioSegments' = audioSegments
            /\ selectedAudioSegmentId' = selectedAudioSegmentId]_vars

\* AutoCut of all assets has just run with two assets registered, on a
\* track that held a segment already
C15_Witness ==
  /\ last.op = "handleAutoCutAll"
  /\ Len(videoAssets) = 2
  /\ Len(videoSegments) = 7
  /\ selectedVideoSegmentId = videoSegments[2].id
  /\ videoSegments[5].assetId = videoAssets[2].id

\* C16: the body of AutoCut run on an empty range list leaves the segments
\* of the track and its selection unchanged
C16_EmptyRangesNoChange ==
  [][(last'.op = "handleAutoCutForAsset" /\ last'.x = 0)
     => /\ videoSegments' = videoSegments
        /\ selectedVideoSegmentId' = selectedVideoSegmentId
        /\ audioSegments' = audioSegments
        /\ selectedAudioSegmentId' = selectedAudioSegmentId]_vars

\* the body of AutoCut has just run on an empty range list, on a track
\* that holds segments and has one selected
C16_Witness ==
  /\ last.op = "handleAutoCutForAsset"
  /\ last.x = 0
  /\ Len(videoSegments) > 0
  /\ selectedVideoSegment # Null

----------------------------------------------------------------------------
(* Properties of the component as a whole                                  *)

\* C17: in every reachable state, whatever the interleaving of add,
\* AutoCut, select, delete, update, drag, resize, togglePlayback and
\* progress notifications, the selection of each track is null or the id
\* of a segment the track holds
C17_SelectionValid ==
  /\ selectedVideoSegmentId = NullId
       \/ selectedVideoSegmentId \in Ids(videoSegments)
  /\ selectedAudioSegmentId = NullId
       \/ selectedAudioSegmentId \in Ids(audioSegments)

\* the step delivers again the progress notification that was delivered
\* last: the element, at the position time, has not moved since, and no
\* other event was handled in between (React may have rendered what that
\* notification set, and may have run effects)
SameNotificationAgain(op, time) ==
  /\ last'.op = op
  /\ last'.val = last.val
  /\ time = last.val
  /\ \/ last.op = op
     \/ /\ last.op \in {"render", "flushPassiveEffects"}
        /\ last.of = op
        /\ last.n <= 1

\* the scheduler is Playing and the position t has reached the end of the
\* segment selected
StillDue(segs, sel, playing, t) ==
  /\ playing
  /\ sel \in Ids(segs)
  /\ LET seg == segs[Position(segs, sel)]
     IN  Le(Add(seg.sourceStart, seg.duration), t)

\* C18, as stated: a progress notification delivered a second time in
\* succession leaves the selection and the scheduler state as the first
\* delivery left them
C18_DuplicateIdempotent ==
  [][/\ SameNotificationAgain("onVideoTimeUpdate", videoTime)
          => VideoSet' = VideoSet
     /\ SameNotificationAgain("onAudioTimeUpdate", audioTime)
          => AudioSet' = AudioSet]_vars

\* C18, amended: a progress notification delivered a second time in
\* succession leaves the selection and the scheduler state as the first
\* delivery left them, unless React ran the effects of a render in between
\* and, in the render whose effects ran last, the scheduler is Playing and
\* the position has reached the end of the segment selected
C18_DuplicateIdempotentUnlessDue ==
  [][/\ (/\ SameNotificationAgain("onVideoTimeUpdate", videoTime)
         /\ VideoSet' # VideoSet)
          => /\ EffectsRan
             /\ StillDue(Listening.videoSegments,
                         Listening.selectedVideoSegmentId,
                         Listening.isPlaying, last'.val)
     /\ (/\ SameNotificationAgain("onAudioTimeUpdate", audioTime)
         /\ AudioSet' # AudioSet)
          => /\ EffectsRan
             /\ StillDue(Listening.audioSegments,
                         Listening.selectedAudioSegmentId,
                         Listening.isAudioPlaying, last'.val)]_vars

\* the video element has reported the end of the selected segment a
\* second time, after React rendered the selection the first report moved
\* on and before it ran the effects of that render: the listener of the
\* render before has selected the same segment again
C18_Witness ==
  /\ last.op = "onVideoTimeUpdate"
  /\ videoTime = last.val
  /\ isPlaying
  /\ stale # Null
  /\ stale.prev.isPlaying
  /\ stale.prev.selectedVideoSegmentId # selectedVideoSegmentId
  /\ selectedVideoSegment # Null
  /\ StillDue(videoSegments, selectedVideoSegmentId, isPlaying, last.val)
  /\ Len(pending) = 1
  /\ pending[1].updates
       = <<SetId("selectedVideoSegmentId", selectedVideoSegmentId)>>

\* C19: a play request that fails or is interrupted changes neither the
\* scheduler state nor the selection nor any segment, and makes no call on
\* the media elements: it is only logged
C19_RejectedPlayChangesNothing ==
  [][last'.op = "onPlayRejected"
     => /\ isPlaying' = isPlaying
        /\ isAudioPlaying' = isAudioPlaying
        /\ selectedVideoSegmentId' = selectedVideoSegmentId
        /\ selectedAudioSegmentId' = selectedAudioSegmentId
        /\ videoSegments' = videoSegments
        /\ audioSegments' = audioSegments
        /\ videoAssets' = videoAssets
        /\ audioAssets' = audioAssets
        /\ pending' = pending
        /\ mounted' = mounted
        /\ videoCmds' = << >>
        /\ audioCmds' = << >>]_vars

\* a play request made on the video element by an earlier step has just
\* been rejected while the video scheduler was Playing and another request
\* made on the element is unsettled still
C19_Witness ==
  /\ last.op = "onPlayRejected"
  /\ last.fld = "video"
  /\ isPlaying
  /\ selectedVideoSegment # Null
  /\ playPromises.video > 0

\* the duration of the asset of a segment as the registry holds it now,
\* unbounded where the asset or its duration is unknown
KnownDuration(seg) ==
  IF AssetOf(seg) = Null \/ AssetOf(seg).duration = Undefined THEN Infinity
  ELSE AssetOf(seg).duration

\* C20: after every resize move the duration of the resized segment is
\* max(0.1, min(candidate, D - newSourceStart)), with candidate =
\* initialDuration -/+ delta and newSourceStart = max(0, initialSourceStart
\* + delta) for the start edge, initialSourceStart for the end edge, and D
\* the duration of the asset of the segment as the registry holds it at the
\* time of the move
C20_ResizeDurationFormula ==
  ResizeMoved =>
    \A seg \in AllSegments :
      seg.id = resizeState.id =>
        LET rs        == resizeState
            delta     == NumDiv(last.x - rs.initialX, PIXELS_PER_SECOND)
            candidate == IF rs.edge = "left"
                         THEN Sub(rs.initialDuration, delta)
                         ELSE Add(rs.initialDuration, delta)
            newSourceStart ==
                         IF rs.edge = "left"
                         THEN MathMax(Zero, Add(rs.initialSourceStart, delta))
                         ELSE rs.initialSourceStart
        IN  seg.duration =
              MathMax(Tenth, MathMin(candidate,
                                     Sub(KnownDuration(seg), newSourceStart)))

----------------------------------------------------------------------------
(* Frame of the gestures                                                   *)

\* the segment at position i of a store keeps its id and its asset
SameIdentity(segs, segsNext) ==
  /\ Len(segsNext) = Len(segs)
  /\ \A i \in 1..Len(segs) :
       /\ segsNext[i].id = segs[i].id
       /\ segsNext[i].assetId = segs[i].assetId

\* where the timelineStart of a segment differs from one store to the
\* next, a drag is in progress on that segment; where its sourceStart or
\* its duration differs, a resize is in progress on that segment
MovedOnlyByGesture(segs, segsNext) ==
  \A i \in 1..Len(segs) :
    /\ segsNext[i].timelineStart # segs[i].timelineStart
         => dragState # Null /\ dragState.id = segs[i].id
    /\ (\/ segsNext[i].sourceStart # segs[i].sourceStart
        \/ segsNext[i].duration # segs[i].duration)
         => resizeState # Null /\ resizeState.id = segs[i].id

\* the step is the render of what a move queued
RenderOfMove == last'.op = "render" /\ last'.of = "onMouseMove"

\* the gesture states that the queued updaters of a kind read when React
\* runs them
Read(kind) ==
  {RefRead(Queue[k]) : k \in {j \in 1..Len(Queue) : Queue[j].kind = kind}}
    \ {Null}

\* where the render of the queue changes the timelineStart of a segment, a
\* drag updater reads the id of that segment; where it changes sourceStart
\* or duration, a resize updater does
RenderedAsRead(segs, segsNext) ==
  \A i \in 1..Len(segs) :
    /\ segsNext[i].timelineStart # segs[i].timelineStart
         => \E g \in Read("drag") : g.id = segs[i].id
    /\ (\/ segsNext[i].sourceStart # segs[i].sourceStart
        \/ segsNext[i].duration # segs[i].duration)
         => \E g \in Read("resize") : g.id = segs[i].id

\* the render of what a move queued leaves every segment in its place in
\* its store, and rewrites those only that the gestures read then name
RenderKeepsFrame ==
  RenderOfMove
  => /\ SameIdentity(videoSegments, videoSegments')
     /\ SameIdentity(audioSegments, audioSegments')
     /\ RenderedAsRead(videoSegments, videoSegments')
     /\ RenderedAsRead(audioSegments, audioSegments')
     /\ Ids(videoSegments') \cap Ids(audioSegments') = {}

\* C21: a resize move changes the timelineStart of no segment (it changes
\* only where a drag on that very segment is in progress as well), and it
\* changes the sourceStart and the duration of no segment other than the
\* one whose id the resize captured
C21_ResizeFrame ==
  [][/\ (last'.op = "onMouseMove" /\ resizeState # Null)
        => \A was \in {Outcome}, now \in {Outcome'} :
             /\ SameIdentity(was.videoSegments, now.videoSegments)
             /\ SameIdentity(was.audioSegments, now.audioSegments)
             /\ MovedOnlyByGesture(was.videoSegments, now.videoSegments)
             /\ MovedOnlyByGesture(was.audioSegments, now.audioSegments)
     /\ RenderKeepsFrame]_vars

\* React has just rendered a resize move that rewrote the captured
\* segment, and another segment stands beside it
C21_Witness ==
  /\ MoveRendered
  /\ resizeState # Null
  /\ \E seg \in Range(videoSegments) \cup Range(audioSegments) :
       /\ seg.id = resizeState.id
       /\ seg.duration # resizeState.initialDuration
  /\ Len(videoSegments) + Len(audioSegments) >= 2

\* C22: a drag move changes the timelineStart of the segment whose id the
\* drag captured and of no other segment of either track; sourceStart,
\* duration (unless a resize is in progress on that segment as well) and
\* assetId of every segment are as before, and every segment is in the
\* store it was in
C22_DragFrame ==
  [][/\ (last'.op = "onMouseMove" /\ dragState # Null)
        => \A was \in {Outcome}, now \in {Outcome'} :
             /\ SameIdentity(was.videoSegments, now.videoSegments)
             /\ SameIdentity(was.audioSegments, now.audioSegments)
             /\ MovedOnlyByGesture(was.videoSegments, now.videoSegments)
             /\ MovedOnlyByGesture(was.audioSegments, now.audioSegments)
             /\ Ids(now.videoSegments) \cap Ids(now.audioSegments) = {}
     /\ RenderKeepsFrame]_vars

\* React has just rendered a drag move that gave the captured segment a
\* new timelineStart while the other track holds a segment too
C22_Witness ==
  /\ MoveRendered
  /\ dragState # Null
  /\ \E seg \in Range(videoSegments) \cup Range(audioSegments) :
       /\ seg.id = dragState.id
       /\ seg.timelineStart # dragState.initialOffset
  /\ Len(videoSegments) >= 1
  /\ Len(audioSegments) >= 1

\* C23: a pointer release leaves the drag and the resize controller Idle,
\* and a pointer move handled while both are Idle (after a release, before
\* the next gesture starts) sets nothing and changes no segment of either
\* track
C23_ReleaseEndsGesture ==
  [][/\ last'.op = "onMouseUp"
          => dragState' = Null /\ resizeState' = Null
     /\ (/\ last'.op = "onMouseMove"
         /\ dragState = Null
         /\ resizeState = Null)
          => /\ videoSegments' = videoSegments
             /\ audioSegments' = audioSegments
             /\ pending' = pending
             /\ dragState' = Null
             /\ resizeState' = Null]_vars

\* a gesture has been started and released, and a pointer move has been
\* handled since, with a segment on the timeline
C23_Witness ==
  /\ last.op = "onMouseMove"
  /\ gestures >= 1
  /\ dragState = Null
  /\ resizeState = Null
  /\ Len(videoSegments) + Len(audioSegments) >= 1

----------------------------------------------------------------------------
(* Missing references                                                      *)

\* the event ev names an id that its store, as set in st, does not
\* hold: an update or a delete of a segment no longer on its track, the
\* metadata of an asset not in its registry, or a move of a gesture whose
\* captured segment is on neither track
MissesReference(ev, st) ==
  \/ /\ ev.op \in {"updateVideoSegment", "deleteVideoSegment"}
     /\ ev.id \notin Ids(st.videoSegments)
  \/ /\ ev.op \in {"updateAudioSegment", "deleteAudioSegment"}
     /\ ev.id \notin Ids(st.audioSegments)
  \/ /\ ev.op = "handleVideoLoadedMetadata"
     /\ ev.id \notin Ids(st.videoAssets)
  \/ /\ ev.op = "handleAudioLoadedMetadata"
     /\ ev.id \notin Ids(st.audioAssets)
  \/ /\ ev.op = "onMouseMove"
     /\ GestureActive
     /\ dragState # Null
        => dragState.id
             \notin Ids(st.videoSegments) \cup Ids(st.audioSegments)
     /\ resizeState # Null
        => resizeState.id
             \notin Ids(st.videoSegments) \cup Ids(st.audioSegments)

\* an update that stays queued behind one React has yet to render rebuilds
\* a segment or an asset each time React renders
Rebuilding ==
  \E st \in {Flush(Rebasing, Kept(pending))} :
    \E h \in DOMAIN st.touched : st.touched[h] # {}

\* C24: an operation that names a segment or an asset that does not exist
\* (in the state as set and, where an updater of the queue throws, in the
\* state as rendered) leaves both segment collections, both selections,
\* both registries and both scheduler states as they were set, and, unless
\* an update kept in the queue rebuilds an object at every render, makes no
\* call on a media element: the calls of its step, if any, are those of
\* the effects of an earlier render, which React runs before it renders
\* again.  Where the render it brings about fails, an updater queued before
\* it is what throws, and React commits nothing
C24_MissingReferenceNoOp ==
  [][\A was \in {Outcome} :
       (/\ MissesReference(last', was)
        /\ was.error => MissesReference(last', Rendered))
       => \A now \in {Outcome'} :
            /\ mounted'
               => /\ now.videoSegments = was.videoSegments
                  /\ now.audioSegments = was.audioSegments
                  /\ now.selectedVideoSegmentId = was.selectedVideoSegmentId
                  /\ now.selectedAudioSegmentId = was.selectedAudioSegmentId
                  /\ now.videoAssets = was.videoAssets
                  /\ now.audioAssets = was.audioAssets
                  /\ now.isPlaying = was.isPlaying
                  /\ now.isAudioPlaying = was.isAudioPlaying
            /\ ~mounted'
               => /\ was.error
                  /\ UNCHANGED <<registries, videoTrack, audioTrack>>
            /\ pending' = pending
               => UNCHANGED <<registries, videoTrack, audioTrack>>
            /\ ~Rebuilding
               => /\ videoCmds' = (IF stale' = stale THEN << >>
                                   ELSE PendingVideoEffects)
                  /\ audioCmds' = (IF stale' = stale THEN << >>
                                   ELSE PendingAudioEffects)]_vars

\* a move has just been handled for a drag whose captured segment was
\* deleted during the gesture, while another segment is selected
C24_Witness ==
  /\ last.op = "onMouseMove"
  /\ dragState # Null
  /\ pending # << >>
  /\ dragState.id \notin Ids(videoSegments) \cup Ids(audioSegments)
  /\ selectedVideoSegment # Null \/ selectedAudioSegment # Null

----------------------------------------------------------------------------
(* Playing and the selection                                               *)

\* C25: in every state a scheduler that is Playing has a selected segment,
\* and that segment is on its track
C25_PlayingHasSelection ==
  /\ isPlaying => selectedVideoSegmentId \in Ids(videoSegments)
  /\ isAudioPlaying => selectedAudioSegmentId \in Ids(audioSegments)

----------------------------------------------------------------------------
(* A run of playback on a fixed track                                      *)

\* one scheduler over one step taken while it is Playing with a selected
\* segment: either nothing moves, or the selection moves to the segment
\* that follows in timeline order and it stays Playing, or the selected
\* segment is the last one and it stops on it
StepsInOrder(segs, sel, selNext, playing, playingNext) ==
  (playing /\ sel \in Ids(segs))
  => \/ selNext = sel /\ playingNext
     \/ /\ SuccessorOf(segs, sel) # Null
        /\ selNext = SuccessorOf(segs, sel).id
        /\ playingNext
     \/ /\ SuccessorOf(segs, sel) = Null
        /\ selNext = sel
        /\ ~playingNext

\* the end of the selected segment lies past the end of its medium: the
\* element reports no position that reaches it
PastMedium(assets, segs, sel) ==
  \E seg \in {Find(segs, sel)}  :
    /\ seg # Null
    /\ \E max \in {MaxOf(assets, seg.assetId)} :
         max # Infinity /\ Lt(max, StopAt(seg))

----------------------------------------------------------------------------
(* Independence of the two schedulers                                      *)

\* C27: a progress notification of one track leaves the selection, the
\* segments and the scheduler state of the other track as they were;
\* received while its own scheduler is Stopped it leaves the selection and
\* the scheduler state of its own track as they were too
C27_NotificationsIndependent ==
  [][/\ last'.op = "onVideoTimeUpdate"
          => /\ AudioSet' = AudioSet
             /\ Outcome'.audioSegments = Outcome.audioSegments
             /\ UNCHANGED audioTrack
             /\ (~isPlaying /\ ~VideoSet.playing)
                  => VideoSet' = VideoSet /\ UNCHANGED videoTrack
     /\ last'.op = "onAudioTimeUpdate"
          => /\ VideoSet' = VideoSet
             /\ Outcome'.videoSegments = Outcome.videoSegments
             /\ UNCHANGED videoTrack
             /\ (~isAudioPlaying /\ ~AudioSet.playing)
                  => AudioSet' = AudioSet /\ UNCHANGED audioTrack]_vars

====
